---- MODULE Spec2Model ----
(***************************************************************************)
(* Model of the policy generator's request pipeline (src/app.py):          *)
(* generate_policy -> generate_policy_content (completion client with      *)
(* model fallback, then the content sanitizer) -> create_word_document;    *)
(* of its health endpoint; and of the IT Glue integration                  *)
(* (src/itglue_integration.py): organization list, organization profile    *)
(* and the mapping of a profile to form data.                              *)
(*                                                                         *)
(* Text is a sequence of characters.  A character is a one-character       *)
(* string; the non-ASCII characters of the source (em dash, en dash, the   *)
(* three bullet glyphs) and a few fixed message fragments are atoms.       *)
(***************************************************************************)
EXTENDS Integers, Sequences, FiniteSets, TLC

\* ------------------------------------------------------------------------
\* Characters
\* ------------------------------------------------------------------------
NL == "\n"
EmDash == "EM_DASH"
EnDash == "EN_DASH"
Bullet == "BULLET"
WhiteBullet == "WHITE_BULLET"
SquareBullet == "SQUARE_BULLET"

UpperLetters ==
    <<"A","B","C","D","E","F","G","H","I","J","K","L","M","N","O","P","Q","R","S","T","U","V","W","X","Y","Z">>

LowerLetters ==
    <<"a","b","c","d","e","f","g","h","i","j","k","l","m","n","o","p","q","r","s","t","u","v","w","x","y","z">>

UpperSet == {UpperLetters[i] : i \in 1..Len(UpperLetters)}

LowerSet == {LowerLetters[i] : i \in 1..Len(LowerLetters)}

\* str.lower() / str.upper() on one character
LowerChar(c) ==
    IF c \in UpperSet
    THEN LowerLetters[CHOOSE i \in 1..Len(UpperLetters) : UpperLetters[i] = c]
    ELSE c

UpperChar(c) ==
    IF c \in LowerSet
    THEN UpperLetters[CHOOSE i \in 1..Len(LowerLetters) : LowerLetters[i] = c]
    ELSE c

\* the characters str.strip() removes
IsSpace(c) == c \in {" ", NL, "\t", "\r"}

\* ------------------------------------------------------------------------
\* Python string operations, as the source uses them
\* ------------------------------------------------------------------------
Lower(s) == [i \in 1..Len(s) |-> LowerChar(s[i])]

Upper(s) == [i \in 1..Len(s) |-> UpperChar(s[i])]

\* str.isupper(): no lower-case character and at least one upper-case one
IsUpper(s) ==
    /\ \A i \in 1..Len(s) : s[i] \notin LowerSet
    /\ \E i \in 1..Len(s) : s[i] \in UpperSet

\* s[n:]
From(s, n) == SubSeq(s, n + 1, Len(s))

\* s[:n]
Upto(s, n) == SubSeq(s, 1, IF n < Len(s) THEN n ELSE Len(s))

StartsWith(s, p) == Len(p) <= Len(s) /\ SubSeq(s, 1, Len(p)) = p

EndsWith(s, p) == Len(p) <= Len(s) /\ SubSeq(s, Len(s) - Len(p) + 1, Len(s)) = p

\* sub in s
Contains(s, sub) ==
    \E i \in 0..(Len(s) - Len(sub)) :
        /\ sub = <<>> \/ s[i + 1] = sub[1]
        /\ SubSeq(s, i + 1, i + Len(sub)) = sub

RECURSIVE LStrip(_)
LStrip(s) == IF s # <<>> /\ IsSpace(Head(s)) THEN LStrip(Tail(s)) ELSE s

RECURSIVE RStrip(_)
RStrip(s) ==
    IF s # <<>> /\ IsSpace(s[Len(s)]) THEN RStrip(SubSeq(s, 1, Len(s) - 1)) ELSE s

\* str.strip()
Strip(s) == RStrip(LStrip(s))

\* str.rstrip(':')
RECURSIVE RStripColon(_)
RStripColon(s) ==
    IF s # <<>> /\ s[Len(s)] = ":" THEN RStripColon(SubSeq(s, 1, Len(s) - 1)) ELSE s

\* str.replace(old, new): every non-overlapping occurrence, left to right
RECURSIVE Replace(_, _, _)
Replace(s, old, new) ==
    LET hits == {i \in 0..(Len(s) - Len(old)) : SubSeq(s, i + 1, i + Len(old)) = old}
    IN  IF hits = {} THEN s
        ELSE LET k == CHOOSE i \in hits : \A j \in hits : i <= j
             IN  SubSeq(s, 1, k) \o new \o Replace(From(s, k + Len(old)), old, new)

\* str.split('\n'): always at least one piece
RECURSIVE SplitLines(_)
SplitLines(s) ==
    IF \A i \in 1..Len(s) : s[i] # NL THEN <<s>>
    ELSE LET k == CHOOSE i \in 1..Len(s) :
                      s[i] = NL /\ \A j \in 1..(i - 1) : s[j] # NL
         IN  <<SubSeq(s, 1, k - 1)>> \o SplitLines(From(s, k))

\* sep.join(parts)
RECURSIVE Join(_, _)
Join(parts, sep) ==
    IF parts = <<>> THEN <<>>
    ELSE IF Len(parts) = 1 THEN parts[1]
    ELSE parts[1] \o sep \o Join(Tail(parts), sep)

\* number of occurrences of the characters of set cs in s
Count(s, cs) == Cardinality({i \in 1..Len(s) : s[i] \in cs})

\* ------------------------------------------------------------------------
\* Content sanitizer: the tail of generate_policy_content
\* ------------------------------------------------------------------------
prefixes_to_remove ==
    << <<"C","e","r","t","a","i","n","l","y","!">>,
       <<"C","e","r","t","a","i","n","l","y",",">>,
       <<"C","e","r","t","a","i","n","l","y",".">>,
       <<"S","u","r","e","!">>,
       <<"S","u","r","e",",">>,
       <<"O","f"," ","c","o","u","r","s","e","!">>,
       <<"O","f"," ","c","o","u","r","s","e",",">>,
       <<"H","e","r","e"," ","i","s">>,
       <<"H","e","r","e","'","s">>,
       <<"B","e","l","o","w"," ","i","s">>,
       <<"I","'","l","l">>,
       <<"I"," ","c","a","n">>,
       <<"L","e","t"," ","m","e">>,
       <<"I","'","d"," ","b","e"," ","h","a","p","p","y"," ","t","o">>,
       <<"H","e","r","e"," ","y","o","u"," ","g","o">>,
       <<"A","b","s","o","l","u","t","e","l","y","!">>,
       <<"A","b","s","o","l","u","t","e","l","y",",">>,
       <<"N","o"," ","p","r","o","b","l","e","m","!">>,
       <<"N","o"," ","p","r","o","b","l","e","m",",">>,
       <<"I"," ","h","a","v","e"," ","a","l","i","g","n","e","d">>,
       <<"I"," ","h","a","v","e"," ","c","r","e","a","t","e","d">>,
       <<"T","h","i","s"," ","p","o","l","i","c","y">>,
       <<"T","h","e"," ","f","o","l","l","o","w","i","n","g">> >>

chatter_phrases ==
    << <<"i","f"," ","y","o","u","'","d"," ","l","i","k","e">>,
       <<"w","o","u","l","d"," ","y","o","u"," ","l","i","k","e">>,
       <<"l","e","t"," ","m","e"," ","k","n","o","w"," ","i","f">>,
       <<"f","e","e","l"," ","f","r","e","e"," ","t","o">>,
       <<"i"," ","c","a","n"," ","a","l","s","o">>,
       <<"i","'","d"," ","b","e"," ","h","a","p","p","y"," ","t","o">>,
       <<"p","l","e","a","s","e"," ","l","e","t"," ","m","e"," ","k","n","o","w">>,
       <<"i","f"," ","y","o","u"," ","n","e","e","d">>,
       <<"w","o","u","l","d"," ","y","o","u"," ","p","r","e","f","e","r">>,
       <<"s","h","a","l","l"," ","i">>,
       <<"d","o"," ","y","o","u"," ","w","a","n","t">>,
       <<"c","o","m","p","r","e","h","e","n","s","i","v","e"," ","i","n","f","o","r","m","a","t","i","o","n"," ","s","e","c","u","r","i","t","y"," ","p","o","l","i","c","y">>,
       <<"t","a","i","l","o","r","e","d"," ","t","o"," ","t","h","e"," ","o","r","g","a","n","i","z","a","t","i","o","n">>,
       <<"i"," ","h","a","v","e"," ","a","l","i","g","n","e","d">>,
       <<"a","l","i","g","n","e","d"," ","i","t"," ","w","i","t","h">>,
       <<"b","e","l","o","w"," ","i","s"," ","a">>,
       <<"h","e","r","e"," ","i","s"," ","a">> >>

\* '_' * 60
Rule60 == [i \in 1..60 |-> "_"]

artifact_lines ==
    << <<"-","-">>, Rule60, <<Bullet>>, <<WhiteBullet>>, <<SquareBullet>> >>

title_token == <<"a","b","i","l","i","t","y","f","i","r","s","t">>

title_phrase == <<"i","n","f","o","r","m","a","t","i","o","n"," ","s","e","c","u","r","i","t","y"," ","p","o","l","i","c","y">>

\* the first list entry content.strip() starts with, 0 when there is none
FirstPrefix(content) ==
    LET t == Strip(content)
        hits == {i \in 1..Len(prefixes_to_remove) : StartsWith(t, prefixes_to_remove[i])}
    IN  IF hits = {} THEN 0 ELSE CHOOSE i \in hits : \A j \in hits : i <= j

\* the loop without its break: prefixes are stripped for as long as one matches
RECURSIVE StripPrefixAll(_)
StripPrefixAll(content) ==
    LET i == FirstPrefix(content)
    IN  IF i = 0 THEN content
        ELSE StripPrefixAll(Strip(From(Strip(content), Len(prefixes_to_remove[i]))))

\* for prefix in prefixes_to_remove: if content.strip().startswith(prefix): ...; break
StripPrefix(content) ==
    LET i == FirstPrefix(content)
    IN  IF i = 0 THEN content
        ELSE Strip(From(Strip(content), Len(prefixes_to_remove[i])))

\* the en dash forgotten
ReplaceEmDashOnly(content) == Replace(content, <<EmDash>>, <<"-">>)

ReplaceDashes(content) ==
    Replace(Replace(content, <<EmDash>>, <<"-">>), <<EnDash>>, <<"-">>)

\* one marker character of each pair left behind
RemoveBoldHalf(content) == Replace(content, <<"*","*">>, <<"*">>)

RemoveBold(content) == Replace(content, <<"*","*">>, <<>>)

NormalizeBullets(content) ==
    Replace(Replace(Replace(content, <<Bullet>>, <<"-">>),
                    <<WhiteBullet>>, <<"-">>),
            <<SquareBullet>>, <<"-">>)

IsChatter(line) ==
    \E i \in 1..Len(chatter_phrases) : Contains(Lower(line), chatter_phrases[i])

IsArtifact(line) == \E i \in 1..Len(artifact_lines) : line = artifact_lines[i]

IsDuplicateTitle(line) ==
    StartsWith(Lower(line), title_token) /\ Contains(Lower(line), title_phrase)

\* the line loop without its last test
KeepLineOrBlank(line) ==
    /\ ~IsChatter(line)
    /\ ~IsArtifact(line)
    /\ ~IsDuplicateTitle(line)

\* the body of the line loop, on a stripped line: TRUE when it is appended
KeepLine(line) ==
    /\ ~IsChatter(line)
    /\ ~IsArtifact(line)
    /\ ~IsDuplicateTitle(line)
    /\ line # <<>>

StrippedLines(content) ==
    LET ls == SplitLines(content) IN [i \in 1..Len(ls) |-> Strip(ls[i])]

FilterLines(content) == Join(SelectSeq(StrippedLines(content), KeepLine), <<NL>>)

\* ------------------------------------------------------------------------
\* Document renderer: create_word_document
\* ------------------------------------------------------------------------
Block(kind, level, text) == [kind |-> kind, level |-> level, text |-> text]

\* the fixed blocks before the line-driven body
CoverBlocks(fd) ==
    << Block("para", 0, <<"CRIMSON IT">>),
       Block("para", 0, Upper(fd.client_name)),
       Block("para", 0, fd.policy_type),
       Block("para", 0, <<"Document Generated: ", "DATE", NL, "Managed by: Crimson IT (MSP/MSSP)">>),
       Block("para", 0, Rule60),
       Block("para", 0, <<>>) >>

\* the fixed blocks after it
FooterBlocks ==
    << Block("para", 0, <<>>),
       Block("para", 0, <<"This document was generated by Crimson IT's AI-powered policy generator.",
                          NL, "For questions or updates, contact your Crimson IT representative.">>) >>

Digits19 == {"1","2","3","4","5","6","7","8","9"}

\* the upper-case test left out
IsLabelColonOnly(line) == EndsWith(line, <<":">>)

\* line.endswith(':') or (line.isupper() and len(line) > 10)
IsLabel(line) == EndsWith(line, <<":">>) \/ (IsUpper(line) /\ Len(line) > 10)

IsBullet(line) ==
    \/ StartsWith(line, <<"-">>)
    \/ StartsWith(line, <<Bullet>>)
    \/ StartsWith(line, <<"*", " ">>)

IsNumbered(line) ==
    /\ line # <<>>
    /\ line[1] \in Digits19
    /\ \/ Contains(Upto(line, 5), <<".", " ">>)
       \/ Contains(Upto(line, 5), <<")", " ">>)

BulletText(line) ==
    IF StartsWith(line, <<"-">>) THEN Strip(From(line, 1)) ELSE Strip(From(line, 2))

\* the blank line that leaves the paragraph open
BlankStepKeepsOpen(d, cp) == [doc |-> d, cp |-> cp]

\* if not line: if current_paragraph: doc.add_paragraph()
\* (a paragraph object is truthy, so the test is "a paragraph is open")
BlankStep(d, cp) ==
    [doc |-> IF cp # 0 THEN Append(d, Block("para", 0, <<>>)) ELSE d, cp |-> 0]

\* the else branch: continue the open paragraph or open one
PlainStep(d, cp, line) ==
    IF cp = 0
    THEN [doc |-> Append(d, Block("para", 0, line)), cp |-> Len(d) + 1]
    ELSE [doc |-> [d EXCEPT ![cp].text =
                       (IF @ # <<>> THEN @ \o <<" ">> ELSE @) \o line],
          cp |-> cp]

\* one iteration of "for line in lines", from document d and open paragraph
\* cp (0: None, else the index of the open paragraph block)
RenderStep(d, cp, rawline) ==
    LET line == Strip(rawline) IN
    IF line = <<>> THEN BlankStep(d, cp)
    ELSE IF StartsWith(line, <<"#","#">>)
    THEN [doc |-> Append(d, Block("heading", 2, Strip(Replace(line, <<"#","#">>, <<>>)))),
          cp |-> 0]
    ELSE IF StartsWith(line, <<"#">>)
    THEN [doc |-> Append(d, Block("heading", 1, Strip(Replace(line, <<"#">>, <<>>)))),
          cp |-> 0]
    ELSE IF IsLabel(line)
    THEN [doc |-> Append(d, Block("heading", 2, RStripColon(line))), cp |-> 0]
    ELSE IF IsBullet(line)
    THEN [doc |-> Append(d, Block("bullet", 0, BulletText(line))), cp |-> 0]
    ELSE IF IsNumbered(line)
    THEN [doc |-> Append(d, Block("number", 0, line)), cp |-> 0]
    ELSE PlainStep(d, cp, line)

\* ------------------------------------------------------------------------
\* The request: generate_policy and generate_policy_content
\* ------------------------------------------------------------------------
model_names == << <<"gpt-5-chat">>, <<"gpt-4o">> >>

ErrPrefix == "Error generating policy content:"

text_fields ==
    <<"client_name", "industry", "company_size", "policy_type",
      "compliance_requirements", "additional_requirements">>

tech_fields ==
    <<"platform_choice", "mdr_solution", "email_security", "siem_solution",
      "pam_solution", "disk_encryption", "mdm_computers", "mdm_mobile",
      "security_training", "phishing_tests", "vulnerability_scans",
      "dark_web_monitoring", "mfa_solution", "password_manager",
      "intrusion_detection", "additional_tech">>

required_fields ==
    <<"client_name", "industry", "company_size", "policy_type", "tech_stack">>

Range(s) == {s[i] : i \in 1..Len(s)}

NoneText == <<"N","o","n","e">>

\* the stripped, non-empty, non-'None' technology selections, in field order
TechComponents(f) ==
    LET vals == [i \in 1..Len(tech_fields) |-> Strip(f[tech_fields[i]])]
    IN  SelectSeq(vals, LAMBDA v : v # <<>> /\ v # NoneText)

\* form_data as generate_policy builds it from request.form
FormData(f) ==
    [client_name |-> Strip(f["client_name"]),
     industry |-> Strip(f["industry"]),
     company_size |-> Strip(f["company_size"]),
     policy_type |-> Strip(f["policy_type"]),
     compliance_requirements |-> Strip(f["compliance_requirements"]),
     additional_requirements |-> Strip(f["additional_requirements"]),
     tech_stack |-> IF TechComponents(f) # <<>>
                    THEN Join(TechComponents(f), <<",", " ">>)
                    ELSE <<"Standard business technology stack">>]

\* a required field left out of the check
MissingFieldsNoIndustry(fd) ==
    SelectSeq(required_fields, LAMBDA n : n # "industry" /\ fd[n] = <<>>)

\* [field for field in required_fields if not form_data[field]]
MissingFields(fd) == SelectSeq(required_fields, LAMBDA n : fd[n] = <<>>)

MissingMessage(missing) ==
    <<"Missing required fields: ">>
        \o Join([i \in 1..Len(missing) |-> <<missing[i]>>], <<",", " ">>)

\* the values the prompt template embeds
Prompt(fd) ==
    <<fd.policy_type, fd.client_name, fd.industry, fd.company_size, fd.tech_stack,
      IF fd.compliance_requirements # <<>> THEN fd.compliance_requirements
      ELSE <<"General best practices">>,
      fd.additional_requirements>>

\* the reason left out of the per-model message
ModelErrorNoReason(name, err) == <<"Model ">> \o name

\* f"Model {model_name}: {str(model_error)}"
ModelError(name, err) == <<"Model ">> \o name \o <<":", " ">> \o err

\* the text of the exception raised when response is None
AllFailedMessage(last) == <<"All models failed. Last error: ">> \o last

\* the failure text without the prefix generate_policy looks for
ErrorTextNoPrefix(msg) == <<"Error: ">> \o msg

\* f"Error generating policy content: {str(e)}"
ErrorText(msg) == <<ErrPrefix, " ">> \o msg

\* the loop without its break: the next candidate is tried after a success
AfterSuccessNoBreak(i) == i + 1

\* the loop position after a successful call: break leaves the loop
AfterSuccess(i) == Len(model_names) + 1

IsSafeChar(c) ==
    c \in UpperSet \cup LowerSet \cup {"0"} \cup Digits19 \cup {" ", "-", "_"}

\* "".join(c for c in s if c.isalnum() or c in (' ', '-', '_')).rstrip()
SafeName(s) == RStrip(SelectSeq(s, IsSafeChar))

Filename(fd) ==
    SafeName(fd.client_name) \o <<"_">> \o SafeName(fd.policy_type)
        \o <<"_", "TIMESTAMP", ".", "d", "o", "c", "x">>

\* ------------------------------------------------------------------------
\* Inputs of the request pipeline
\* ------------------------------------------------------------------------
AcmeName == <<" ","A","c","m","e"," ","&"," ","C","o"," ">>

FinanceName == <<"F","i","n","a","n","c","e">>

SizeName == <<"5","0","-","1","0","0">>

PolicyName == <<"S","e","c","u","r","i","t","y"," ","P","o","l","i","c","y"," ">>

Soc2Name == <<"S","O","C"," ","2">>

M365Name == <<"M","i","c","r","o","s","o","f","t"," ","3","6","5">>

SophosName == <<" ","S","o","p","h","o","s"," ","M","D","R">>

ClientNames == {<<>>, <<" ">>, AcmeName}

Industries == {<<>>, <<" ", " ">>, FinanceName}

CompanySizes == {<<>>, SizeName}

PolicyTypes == {<<>>, <<"\t">>, PolicyName}

ComplianceValues == {<<>>, Soc2Name}

\* the submitted technology selections: none, one real one and a 'None', two
TechChoices ==
    LET blank == [n \in Range(tech_fields) |-> <<>>]
    IN  { blank,
          [blank EXCEPT !["platform_choice"] = M365Name, !["mdr_solution"] = NoneText],
          [blank EXCEPT !["platform_choice"] = M365Name, !["mdr_solution"] = SophosName] }

Forms ==
    { [n \in Range(text_fields) \cup Range(tech_fields) |->
          CASE n = "client_name" -> c
            [] n = "industry" -> i
            [] n = "company_size" -> s
            [] n = "policy_type" -> p
            [] n = "compliance_requirements" -> q
            [] n = "additional_requirements" -> <<>>
            [] OTHER -> t[n]] :
      c \in ClientNames, i \in Industries, s \in CompanySizes, p \in PolicyTypes,
      q \in ComplianceValues, t \in TechChoices }

\* what a failing completion call reports (str(model_error))
Errors == { <<"DeploymentNotFound">>, <<"Timeout">> }

\* what a successful completion call returns
Responses ==
    { <<"#"," ","A",NL,NL,"S","o","m","e"," ","b","o","d","y",".",NL,NL,"-"," ","i","t","e","m"," ","o","n","e",NL>>,
      <<"C","e","r","t","a","i","n","l","y","!"," ","H","e","r","e"," ","i","s"," ","t","e","x","t",EmDash,"o","k",NL,"*","*","S","c","o","p","e",":","*","*",NL,"l","e","t"," ","m","e"," ","k","n","o","w"," ","i","f",NL,"m","o","r","e",NL,NL,"l","a","s","t">>,
      <<ErrPrefix, " ", "x">>,
      <<>> }

\* ------------------------------------------------------------------------
\* State
\* ------------------------------------------------------------------------
VARIABLES
    form,               \* request.form: field name -> submitted text
    env,                \* which of the two credentials the environment holds
    pc,                 \* where the request is
    entered,            \* the functions entered so far in this request
    form_data,          \* <<>> until built, then <<form_data>>
    openai_set,         \* TRUE once configure_openai has set the client
    idx,                \* position of the model loop in model_names
    calls,              \* the completion calls made, in order, with their result
    response,           \* <<>> (None) or <<text of the successful response>>
    last_error,         \* <<>> (None) or <<message>>
    raw,                \* the text the sanitizer was given
    content,            \* the text being sanitized
    policy_content,     \* <<>> or <<what generate_policy_content returned>>
    first_out,          \* <<>> or <<the result of the first sanitizing pass>>
    pass,               \* 1, or 2 when the sanitizer is applied to its own output
    doc,                \* the blocks added to the document, in order
    current_paragraph,  \* 0 (None) or the index in doc of the open paragraph
    lines,              \* policy_content.split('\n') in create_word_document
    li,                 \* the next line of lines to render
    http,               \* <<>> or <<the response of the request handler>>
    health_info,        \* <<>> or <<the report health() is building>>
    test_results,       \* health(): the availability found for each model probed so far
    itg_key,            \* ITGlueIntegration.api_key is set
    ipc,                \* where the IT Glue lookup is
    api_log,            \* the endpoints requested of the IT Glue API, in order
    organizations,      \* what get_active_organizations returned
    org_result,         \* <<>> or <<result of the call's request for organizations>>
    config_result,      \* <<>> or <<result of the configurations fetch>>
    profile,            \* <<>> (None) or <<the organization profile>>
    prefill,            \* <<>> or <<what map_profile_to_form_data returned>>
    previous            \* <<>> or <<frameworks detected and option mapped by the lookup before>>

vars ==
    <<form, env, pc, entered, form_data, openai_set, idx, calls, response,
      last_error, raw, content, policy_content, first_out, pass, doc,
      current_paragraph, lines, li, http, health_info, test_results, itg_key, ipc, api_log,
      organizations, org_result, config_result, profile, prefill, previous>>

reqVars == <<form, env>>

itgVars ==
    <<itg_key, ipc, api_log, organizations, org_result, config_result, profile,
      prefill, previous>>

\* what no step of generate_policy touches
svcVars == <<health_info, test_results, itgVars>>

genVars == <<openai_set, idx, calls, response, last_error>>

sanVars == <<raw, content, first_out, pass>>

docVars == <<doc, current_paragraph, lines, li>>

\* no IT Glue lookup is made
ItgUnused ==
    /\ itg_key = FALSE
    /\ ipc = "unused"
    /\ api_log = <<>>
    /\ organizations = <<>>
    /\ org_result = <<>>
    /\ config_result = <<>>
    /\ profile = <<>>
    /\ prefill = <<>>
    /\ previous = <<>>

Fresh ==
    /\ entered = {}
    /\ form_data = <<>>
    /\ openai_set = FALSE
    /\ idx = 1
    /\ calls = <<>>
    /\ response = <<>>
    /\ last_error = <<>>
    /\ raw = <<>>
    /\ content = <<>>
    /\ policy_content = <<>>
    /\ first_out = <<>>
    /\ pass = 1
    /\ doc = <<>>
    /\ current_paragraph = 0
    /\ lines = <<>>
    /\ li = 1
    /\ http = <<>>
    /\ health_info = <<>>
    /\ test_results = <<>>

\* a form submission arrives at /generate_policy
Init ==
    /\ form \in Forms
    /\ env \in [api_key : BOOLEAN, endpoint : BOOLEAN]
    /\ pc = "request"
    /\ Fresh
    /\ ItgUnused

\* ------------------------------------------------------------------------
\* generate_policy, up to the call of generate_policy_content
\* ------------------------------------------------------------------------
Validate ==
    /\ pc = "request"
    /\ form_data' = <<FormData(form)>>
    /\ IF MissingFields(FormData(form)) # <<>>
       THEN /\ http' = <<[status |-> 400, kind |-> "error",
                          body |-> MissingMessage(MissingFields(FormData(form)))]>>
            /\ pc' = "done"
            /\ UNCHANGED entered
       ELSE /\ pc' = "configure"
            /\ entered' = entered \cup {"generate_policy_content"}
            /\ UNCHANGED http
    /\ UNCHANGED <<reqVars, svcVars, genVars, sanVars, policy_content, docVars>>

\* ------------------------------------------------------------------------
\* generate_policy_content: configuration and the model loop
\* ------------------------------------------------------------------------
Configure ==
    /\ pc = "configure"
    /\ IF env.api_key /\ env.endpoint
       THEN /\ openai_set' = TRUE
            /\ pc' = "loop"
            /\ UNCHANGED policy_content
       ELSE /\ policy_content' = <<ErrorText(<<"Azure OpenAI credentials not configured">>)>>
            /\ pc' = "returned"
            /\ UNCHANGED openai_set
    /\ UNCHANGED <<reqVars, svcVars, entered, form_data, idx, calls, response, last_error,
                   sanVars, docVars, http>>

CallModel ==
    /\ pc = "loop"
    /\ idx <= Len(model_names)
    /\ \/ \E r \in Responses :
            /\ calls' = Append(calls, [engine |-> model_names[idx],
                                       prompt |-> Prompt(form_data[1]),
                                       ok |-> TRUE, result |-> r])
            /\ response' = <<r>>
            /\ idx' = AfterSuccess(idx)
            /\ UNCHANGED last_error
       \/ \E e \in Errors :
            /\ calls' = Append(calls, [engine |-> model_names[idx],
                                       prompt |-> Prompt(form_data[1]),
                                       ok |-> FALSE, result |-> e])
            /\ last_error' = <<ModelError(model_names[idx], e)>>
            /\ idx' = idx + 1
            /\ UNCHANGED response
    /\ UNCHANGED <<reqVars, svcVars, pc, entered, form_data, openai_set, sanVars,
                   policy_content, docVars, http>>

AfterLoop ==
    /\ pc = "loop"
    /\ idx > Len(model_names)
    /\ IF response = <<>>
       THEN /\ policy_content' = <<ErrorText(AllFailedMessage(last_error[1]))>>
            /\ pc' = "returned"
            /\ UNCHANGED <<raw, content>>
       ELSE /\ raw' = response[1]
            /\ content' = response[1]
            /\ pc' = "strip"
            /\ UNCHANGED policy_content
    /\ UNCHANGED <<reqVars, svcVars, entered, form_data, genVars, first_out, pass, docVars, http>>

\* ------------------------------------------------------------------------
\* generate_policy_content: the sanitizer, one step per action
\* ------------------------------------------------------------------------
SanFrame ==
    UNCHANGED <<reqVars, svcVars, entered, form_data, genVars, raw, first_out, pass, docVars, http>>

DoStripPrefix ==
    /\ pc = "strip"
    /\ content' = StripPrefix(content)
    /\ pc' = "dashes"
    /\ UNCHANGED policy_content
    /\ SanFrame

DoReplaceDashes ==
    /\ pc = "dashes"
    /\ content' = ReplaceDashes(content)
    /\ pc' = "bold"
    /\ UNCHANGED policy_content
    /\ SanFrame

DoRemoveBold ==
    /\ pc = "bold"
    /\ content' = RemoveBold(content)
    /\ pc' = "bullets"
    /\ UNCHANGED policy_content
    /\ SanFrame

DoNormalizeBullets ==
    /\ pc = "bullets"
    /\ content' = NormalizeBullets(content)
    /\ pc' = "filter"
    /\ UNCHANGED policy_content
    /\ SanFrame

DoFilterLines ==
    /\ pc = "filter"
    /\ policy_content' = <<FilterLines(content)>>
    /\ pc' = "returned"
    /\ UNCHANGED content
    /\ SanFrame

\* ------------------------------------------------------------------------
\* generate_policy, after generate_policy_content returned
\* ------------------------------------------------------------------------
CheckSentinel ==
    /\ pc = "returned"
    /\ IF StartsWith(policy_content[1], <<ErrPrefix>>)
       THEN /\ http' = <<[status |-> 500, kind |-> "error", body |-> policy_content[1]]>>
            /\ pc' = "done"
            /\ UNCHANGED entered
       ELSE /\ pc' = "render_cover"
            /\ entered' = entered \cup {"create_word_document"}
            /\ UNCHANGED http
    /\ UNCHANGED <<reqVars, svcVars, form_data, genVars, sanVars, policy_content, docVars>>

RenderFrame ==
    UNCHANGED <<reqVars, svcVars, entered, form_data, genVars, sanVars, policy_content, http>>

RenderCover ==
    /\ pc = "render_cover"
    /\ doc' = CoverBlocks(form_data[1])
    /\ lines' = SplitLines(policy_content[1])
    /\ current_paragraph' = 0
    /\ li' = 1
    /\ pc' = "render_lines"
    /\ RenderFrame

RenderLine ==
    /\ pc = "render_lines"
    /\ li <= Len(lines)
    /\ LET r == RenderStep(doc, current_paragraph, lines[li])
       IN  /\ doc' = r.doc
           /\ current_paragraph' = r.cp
    /\ li' = li + 1
    /\ UNCHANGED <<pc, lines>>
    /\ RenderFrame

RenderFooter ==
    /\ pc = "render_lines"
    /\ li > Len(lines)
    /\ doc' = doc \o FooterBlocks
    /\ pc' = "save"
    /\ UNCHANGED <<current_paragraph, lines, li>>
    /\ RenderFrame

SendFile ==
    /\ pc = "save"
    /\ http' = <<[status |-> 200, kind |-> "file",
                  body |-> [document |-> doc, download_name |-> Filename(form_data[1])]]>>
    /\ pc' = "done"
    /\ UNCHANGED <<reqVars, svcVars, entered, form_data, genVars, sanVars, policy_content, docVars>>

\* doc.save or the temporary file raises: the handler's except clause
SaveFails ==
    /\ pc = "save"
    /\ http' = <<[status |-> 500, kind |-> "error",
                  body |-> <<"An error occurred: ", "OSError">>]>>
    /\ pc' = "done"
    /\ UNCHANGED <<reqVars, svcVars, entered, form_data, genVars, sanVars, policy_content, docVars>>

Next ==
    \/ Validate
    \/ Configure
    \/ CallModel
    \/ AfterLoop
    \/ DoStripPrefix
    \/ DoReplaceDashes
    \/ DoRemoveBold
    \/ DoNormalizeBullets
    \/ DoFilterLines
    \/ CheckSentinel
    \/ RenderCover
    \/ RenderLine
    \/ RenderFooter
    \/ SendFile
    \/ SaveFails

Spec == Init /\ [][Next]_vars

\* ------------------------------------------------------------------------
\* The sanitizer on its own: every bounded raw text, sanitized, and the result
\* sanitized once more
\* ------------------------------------------------------------------------
MaxLines == 2

TitleLine == <<"A","b","i","l","i","t","y","F","i","r","s","t"," ","I","n","f","o","r","m","a","t","i","o","n"," ","S","e","c","u","r","i","t","y"," ","P","o","l","i","c","y">>

\* the lines the raw texts are made of
SanLineVocab ==
    { <<>>,
      <<"o","k">>,
      <<" ","a","-","b"," ">>,
      <<"L","e","t"," ","m","e"," ","k","n","o","w"," ","i","f"," ","o","k">>,
      <<"P","l","e","a","s","e"," ","f","e","e","l"," ","f","r","e","e"," ","t","o"," ","r","e","-","a","s","k">>,
      <<"-","-">>,
      <<EmDash,EnDash>>,
      <<Bullet>>,
      <<WhiteBullet," ">>,
      <<SquareBullet," ","x">>,
      <<"a",EmDash,"b",EnDash,"c">>,
      <<"*","*","B","o","l","d","*","*"," ","t","e","x","t">>,
      <<"*","*","*">>,
      <<"-","*","*","-">>,
      <<"S","u","r","e",","," ","o","k">>,
      <<"H","e","r","e"," ","i","s"," ","a"," ","p","l","a","n">>,
      <<"T","h","i","s"," ","p","o","l","i","c","y"," ","i","s","-","o","k">>,
      <<"s","u","r","e",","," ","o","k">>,
      <<"*"," ","-">>,
      Rule60,
      TitleLine }

\* what follows a conversational prefix
Remainders ==
    { <<>>,
      <<" ","i","s"," ","t","h","e"," ","p","o","l","i","c","y","."," ">>,
      <<" ","S","u","r","e",","," ","o","k"," ">>,
      <<NL,"#"," ","A",NL,"b","o","d","y",EmDash,"x">>,
      <<"s">>,
      <<NL,NL,Bullet,NL,"I","'","l","l"," ","s","t","o","p">> }

LineTexts(n) ==
    UNION { { Join(ls, <<NL>>) : ls \in [1..k -> SanLineVocab] } : k \in 0..n }

PrefixTexts ==
    { prefixes_to_remove[i] \o r : i \in 1..Len(prefixes_to_remove), r \in Remainders }

LeadTexts ==
    { lead \o prefixes_to_remove[i] \o r :
        lead \in { <<" ">>, <<NL, " ">>, <<"x", " ">> },
        i \in {1, 5, 9}, r \in { <<>>, <<" ", "o", "k">> } }

RawTexts == LineTexts(MaxLines) \cup PrefixTexts \cup LeadTexts

\* a submission that passes validation
GoodForm ==
    CHOOSE f \in Forms :
        /\ MissingFields(FormData(f)) = <<>>
        /\ f["compliance_requirements"] # <<>>
        /\ f["mdr_solution"] = SophosName

\* the request is at the point where the model has just answered text
AnsweredWith(text) ==
    /\ form = GoodForm
    /\ env = [api_key |-> TRUE, endpoint |-> TRUE]
    /\ entered = {"generate_policy_content"}
    /\ form_data = <<FormData(GoodForm)>>
    /\ openai_set = TRUE
    /\ idx = AfterSuccess(1)
    /\ calls = <<[engine |-> model_names[1], prompt |-> Prompt(FormData(GoodForm)),
                  ok |-> TRUE, result |-> text]>>
    /\ response = <<text>>
    /\ last_error = <<>>

InitSanitize ==
    /\ raw \in RawTexts
    /\ AnsweredWith(raw)
    /\ content = raw
    /\ pc = "strip"
    /\ policy_content = <<>>
    /\ first_out = <<>>
    /\ pass = 1
    /\ doc = <<>>
    /\ current_paragraph = 0
    /\ lines = <<>>
    /\ li = 1
    /\ http = <<>>
    /\ health_info = <<>>
    /\ test_results = <<>>
    /\ ItgUnused

\* the sanitizer is given its own output
SanitizeAgain ==
    /\ pc = "returned"
    /\ pass = 1
    /\ first_out' = policy_content
    /\ content' = policy_content[1]
    /\ policy_content' = <<>>
    /\ pass' = 2
    /\ pc' = "strip"
    /\ UNCHANGED <<reqVars, svcVars, entered, form_data, genVars, raw, docVars, http>>

NextSanitize ==
    \/ DoStripPrefix
    \/ DoReplaceDashes
    \/ DoRemoveBold
    \/ DoNormalizeBullets
    \/ DoFilterLines
    \/ SanitizeAgain

SpecSanitize == InitSanitize /\ [][NextSanitize]_vars

\* ------------------------------------------------------------------------
\* Claims about the model loop and the request (checked under Spec)
\* ------------------------------------------------------------------------
\* the index in calls of the first successful call, 0 when there is none
FirstOk ==
    IF \E k \in 1..Len(calls) : calls[k].ok
    THEN CHOOSE k \in 1..Len(calls) : calls[k].ok /\ \A j \in 1..(k - 1) : ~calls[j].ok
    ELSE 0

Sanitizing == pc \in {"strip", "dashes", "bold", "bullets", "filter"}

\* C1: the candidate models are called strictly in list order, each at most
\* once, a candidate only after every earlier one failed and none after a
\* success; the text that is sanitized and returned is the response of the
\* first candidate that succeeded.
C1_FallbackOrder ==
    /\ Len(calls) <= Len(model_names)
    /\ \A k \in 1..Len(calls) :
          /\ calls[k].engine = model_names[k]
          /\ \A j \in 1..(k - 1) : ~calls[j].ok
    /\ (response # <<>>) =>
          /\ FirstOk # 0
          /\ response[1] = calls[FirstOk].result
    /\ (Sanitizing \/ (pc \in {"returned", "done"} /\ FirstOk # 0)) =>
          /\ FirstOk # 0
          /\ raw = calls[FirstOk].result
    /\ (pc = "strip") => content = calls[FirstOk].result
    /\ (pc \in {"returned", "done"} /\ FirstOk # 0) =>
          policy_content =
              <<FilterLines(NormalizeBullets(RemoveBold(ReplaceDashes(
                    StripPrefix(calls[FirstOk].result)))))>>

\* the first candidate failed, the second answered, and its text is being sanitized
C1_Witness ==
    /\ pc = "strip"
    /\ Len(calls) = 2
    /\ ~calls[1].ok
    /\ calls[2].ok
    /\ content = calls[2].result
    /\ content # <<>>

AllCandidatesFailed ==
    /\ Len(calls) = Len(model_names)
    /\ \A k \in 1..Len(calls) : ~calls[k].ok

EmptyRequired ==
    {n \in {"client_name", "industry", "company_size", "policy_type"} :
        \A i \in 1..Len(form[n]) : IsSpace(form[n][i])}

\* C3: a submission with a required field empty after trimming is answered
\* with HTTP 400 naming the missing fields; no completion call is made,
\* generate_policy_content is not entered and no document is constructed.
C3_ValidationFirst ==
    (EmptyRequired # {}) =>
        /\ calls = <<>>
        /\ entered = {}
        /\ doc = <<>>
        /\ policy_content = <<>>
        /\ pc \in {"request", "done"}
        /\ (pc = "done") =>
              /\ http # <<>>
              /\ http[1].status = 400
              /\ http[1].kind = "error"
              /\ \A n \in Range(required_fields) :
                    Contains(http[1].body, <<n>>) <=> n \in EmptyRequired

\* a whitespace-only client name was rejected
C3_Witness ==
    /\ pc = "done"
    /\ form["client_name"] # <<>>
    /\ "client_name" \in EmptyRequired
    /\ "industry" \notin EmptyRequired
    /\ http # <<>>
    /\ http[1].status = 400

\* generation failed: the credentials are missing or every candidate failed,
\* and generate_policy_content is past its model loop
GenerationFailed ==
    /\ "generate_policy_content" \in entered
    /\ \/ ~(env.api_key /\ env.endpoint) /\ pc # "configure"
       \/ AllCandidatesFailed /\ pc # "loop"

\* C4: when generation fails, generate_policy_content returns text beginning
\* with the error prefix (it does not raise), generate_policy answers with
\* an error payload and status 500, create_word_document is never called and
\* no file is sent.
C4_FailureIsSentinel ==
    GenerationFailed =>
        /\ pc \in {"returned", "done"}
        /\ policy_content # <<>>
        /\ StartsWith(policy_content[1], <<ErrPrefix>>)
        /\ "create_word_document" \notin entered
        /\ doc = <<>>
        /\ (pc = "done") =>
              /\ http # <<>>
              /\ http[1].status = 500
              /\ http[1].kind = "error"
              /\ http[1].body = policy_content[1]
        /\ (pc # "done") => http = <<>>

\* the endpoint is missing and the caller got the 500
C4_Witness ==
    /\ pc = "done"
    /\ env.api_key
    /\ ~env.endpoint
    /\ calls = <<>>
    /\ http # <<>>
    /\ http[1].status = 500

\* ------------------------------------------------------------------------
\* Claims about the sanitizer (checked under SpecSanitize)
\* ------------------------------------------------------------------------
Dashes == {EmDash, EnDash}

Glyphs == {Bullet, WhiteBullet, SquareBullet}

NoListedPrefix(t) ==
    \A i \in 1..Len(prefixes_to_remove) : ~StartsWith(t, prefixes_to_remove[i])

\* the sanitizer has returned from its first pass over raw
SanitizedOnce == pc = "returned" /\ pass = 1 /\ response # <<>> /\ policy_content # <<>>

\* the sanitizer has returned from the pass over its own output
SanitizedTwice == pc = "returned" /\ pass = 2 /\ policy_content # <<>>

\* C5 as stated: sanitizing is idempotent, sanitize(sanitize(x)) = sanitize(x)
\* for every raw text x.
C5_Idempotent == SanitizedTwice => policy_content = first_out

\* C5 amended: sanitize(sanitize(x)) = sanitize(x) exactly when sanitize(x)
\* does not itself start with a listed conversational prefix (only one prefix
\* is stripped per call, so a second one is stripped by the second call).
C5_IdempotentUnlessPrefix ==
    SanitizedTwice => (policy_content = first_out <=> NoListedPrefix(first_out[1]))

\* a text the first pass changed (a prefix stripped, a line dropped) and the
\* second pass left alone
C5_Witness ==
    /\ SanitizedTwice
    /\ ~NoListedPrefix(raw)
    /\ Len(SplitLines(raw)) > Len(SplitLines(first_out[1]))
    /\ first_out[1] # <<>>
    /\ policy_content = first_out

\* C6: for a text P+R with P a listed prefix, the prefix step removes exactly
\* that leading P and hands on R trimmed, a second prefix at the start of R
\* included; the match is case-sensitive and at the very start of the trimmed
\* text; a text that starts with no listed prefix is not changed by the step.
C6_OnePrefixStripped ==
    (pc = "dashes" /\ pass = 1) =>
        /\ \A i \in 1..Len(prefixes_to_remove) :
              StartsWith(raw, prefixes_to_remove[i])
                  => content = Strip(From(raw, Len(prefixes_to_remove[i])))
        /\ \A i \in 1..Len(prefixes_to_remove) :
              StartsWith(Strip(raw), prefixes_to_remove[i])
                  => content = Strip(From(Strip(raw), Len(prefixes_to_remove[i])))
        /\ NoListedPrefix(Strip(raw)) => content = raw

\* a prefix was stripped and the remainder still starts with a listed prefix
C6_Witness ==
    /\ pc = "dashes"
    /\ pass = 1
    /\ ~NoListedPrefix(raw)
    /\ ~NoListedPrefix(content)
    /\ Len(content) < Len(raw)

\* C7 as stated: the output has no em or en dash, and its number of hyphens
\* is the input's number of hyphens plus the number of dashes replaced.
C7_HyphenCount ==
    SanitizedOnce =>
        /\ Count(policy_content[1], Dashes) = 0
        /\ Count(policy_content[1], {"-"}) = Count(raw, {"-"}) + Count(raw, Dashes)

\* no line that carries a hyphen when it reaches the line filter is dropped
NoHyphenLineDropped ==
    \A k \in 1..Len(StrippedLines(content)) :
        Count(StrippedLines(content)[k], {"-"}) > 0 => KeepLine(StrippedLines(content)[k])

\* C7 amended: the output has no em or en dash; and when the input has no
\* bullet glyph (those become hyphens too) and the line filter drops no line
\* containing a hyphen, the number of hyphens in the output is the input's
\* number of hyphens plus its number of em and en dashes.
C7_NoDashesHyphensKept ==
    SanitizedOnce =>
        /\ Count(policy_content[1], Dashes) = 0
        /\ (Count(raw, Glyphs) = 0 /\ NoHyphenLineDropped) =>
              Count(policy_content[1], {"-"}) = Count(raw, {"-"}) + Count(raw, Dashes)

\* an input with both kinds of dash and a hyphen, all three hyphens in the output
C7_Witness ==
    /\ SanitizedOnce
    /\ Count(raw, {EmDash}) > 0
    /\ Count(raw, {EnDash}) > 0
    /\ Count(raw, {"-"}) > 0
    /\ Count(raw, Glyphs) = 0
    /\ NoHyphenLineDropped
    /\ Count(policy_content[1], {"-"}) >= 3

\* the line is a lone bullet glyph once trimmed
LoneGlyph(line) == Strip(line) \in {<<Bullet>>, <<WhiteBullet>>, <<SquareBullet>>}

\* C8: the line filter drops exactly the blank lines, the lines containing a
\* chatter phrase, the artifact lines (a raw-input line that is only a bullet
\* glyph included) and the duplicate-title line, and keeps every other line,
\* trimmed, in order.
C8_LineFilter ==
    SanitizedOnce =>
        LET cl == StrippedLines(content)
            rl == SplitLines(raw)
            aligned == NoListedPrefix(Strip(raw))
            keep == {k \in 1..Len(cl) :
                        /\ cl[k] # <<>>
                        /\ ~IsChatter(cl[k])
                        /\ ~IsArtifact(cl[k])
                        /\ ~IsDuplicateTitle(cl[k])
                        /\ aligned => ~LoneGlyph(rl[k])}
        IN  SplitLines(policy_content[1]) =
                (IF keep = {} THEN << <<>> >>
                 ELSE SelectSeq([k \in 1..Len(cl) |-> IF k \in keep THEN cl[k] ELSE <<>>],
                                LAMBDA x : x # <<>>))

\* ------------------------------------------------------------------------
\* The renderer on its own: create_word_document called with every bounded text
\* ------------------------------------------------------------------------
MaxRenderLines == 3

ExampleText == <<"#"," ","A",NL,NL,"S","o","m","e"," ","b","o","d","y",".",NL,NL,"-"," ","i","t","e","m"," ","o","n","e",NL,"-"," ","i","t","e","m"," ","t","w","o",NL,"1","."," ","f","i","r","s","t",NL>>

\* the lines the texts to render are made of
RenderLineVocab ==
    { <<>>,
      <<"#"," ","A">>,
      <<"S","o","m","e"," ","b","o","d","y",".">>,
      <<"m","o","r","e"," ","t","e","x","t">>,
      <<"-"," ","i","t","e","m"," ","o","n","e">>,
      <<"1","."," ","f","i","r","s","t">>,
      <<"T","O","T","A","L"," ","B","U","D","G","E","T">>,
      <<"S","c","o","p","e",":">>,
      <<"-"," ","I","t","e","m",":">>,
      <<"1","."," ","S","C","O","P","E"," ","A","N","D"," ","U","S","E">>,
      <<"S","H","O","R","T"," ","C","A","P","S">>,
      <<"#","#"," ","B"," ","#"," ","c">>,
      <<Bullet," ","g","l","y","p","h">> }

\* further texts: list markers and numbering at the edge of their rules
ExtraRenderTexts ==
    { ExampleText,
      <<"*"," ","s","t","a","r",NL,"2",")"," ","s","e","c","o","n","d",NL,"N","o","t","e","s",":",":",NL,"1","2","3","4","."," ","f","a","r",NL>>,
      <<" "," ","i","n","t","r","o"," ",NL," ",NL,"m","o","r","e",NL,"S","C","O","P","E"," ","A","N","D"," ","P","U","R","P","O","S","E",NL,"b","o","d","y",NL,"b","o","d","y"," ","t","w","o">>,
      <<"-","-","-","-","-","-","-","-","-","-","-",NL,":",NL,"#","#",NL,"#">>,
      <<"#"," ","U","s","e"," ","C","#"," ","h","e","r","e",NL,"#","#"," ","T","a","g","s"," ","#","#"," ","m","o","r","e",NL,"#","#","#"," ","D","e","e","p",NL,"p","l","a","i","n">> }

RenderTexts ==
    UNION { { Join(ls, <<NL>>) : ls \in [1..k -> RenderLineVocab] } : k \in 0..MaxRenderLines }
        \cup ExtraRenderTexts

InitRender ==
    /\ form = GoodForm
    /\ env = [api_key |-> TRUE, endpoint |-> TRUE]
    /\ pc = "render_cover"
    /\ entered = {"create_word_document"}
    /\ form_data = <<FormData(GoodForm)>>
    /\ openai_set = FALSE
    /\ idx = 1
    /\ calls = <<>>
    /\ response = <<>>
    /\ last_error = <<>>
    /\ raw = <<>>
    /\ content = <<>>
    /\ policy_content \in {<<t>> : t \in RenderTexts}
    /\ first_out = <<>>
    /\ pass = 1
    /\ doc = <<>>
    /\ current_paragraph = 0
    /\ lines = <<>>
    /\ li = 1
    /\ http = <<>>
    /\ health_info = <<>>
    /\ test_results = <<>>
    /\ ItgUnused

NextRender ==
    \/ RenderCover
    \/ RenderLine
    \/ RenderFooter

SpecRender == InitRender /\ [][NextRender]_vars

\* ------------------------------------------------------------------------
\* Claims about the renderer (checked under SpecRender)
\* ------------------------------------------------------------------------
\* the line-driven blocks of a finished document
Body ==
    SubSeq(doc, Len(CoverBlocks(form_data[1])) + 1, Len(doc) - Len(FooterBlocks))

Rendered ==
    /\ pc = "save"
    /\ SubSeq(doc, 1, Len(CoverBlocks(form_data[1]))) = CoverBlocks(form_data[1])
    /\ SubSeq(doc, Len(doc) - Len(FooterBlocks) + 1, Len(doc)) = FooterBlocks

\* the trimmed source lines
TrimmedLines == [k \in 1..Len(lines) |-> Strip(lines[k])]

\* blank, structural (a heading, bullet or numbered item) or plain
LineClass(line) ==
    IF line = <<>> THEN "blank"
    ELSE IF \/ StartsWith(line, <<"#">>)
            \/ IsLabel(line)
            \/ IsBullet(line)
            \/ IsNumbered(line)
    THEN "structural"
    ELSE "plain"

\* the one block a structural line stands for
StructuralBlock(line) == RenderStep(<<>>, 0, line).doc[1]

\* the last line of the run of plain lines that starts at k
RunEnd(tl, k) ==
    CHOOSE e \in k..Len(tl) :
        /\ \A j \in k..e : LineClass(tl[j]) = "plain"
        /\ e = Len(tl) \/ LineClass(tl[e + 1]) # "plain"

\* what line k contributes to the body: spacer tells whether a blank line
\* that ends a paragraph leaves an empty paragraph block behind
Contribution(tl, k, spacer) ==
    LET c == LineClass(tl[k])
        prev == IF k = 1 THEN "none" ELSE LineClass(tl[k - 1])
    IN  CASE c = "structural" -> <<StructuralBlock(tl[k])>>
          [] c = "blank" ->
                IF spacer /\ prev = "plain" THEN <<Block("para", 0, <<>>)>> ELSE <<>>
          [] OTHER ->
                IF prev = "plain" THEN <<>>
                ELSE <<Block("para", 0, Join(SubSeq(tl, k, RunEnd(tl, k)), <<" ">>))>>

RECURSIVE BodyFrom(_, _, _)
BodyFrom(tl, k, spacer) ==
    IF k > Len(tl) THEN <<>>
    ELSE Contribution(tl, k, spacer) \o BodyFrom(tl, k + 1, spacer)

ExampleBlocks ==
    << Block("heading", 1, <<"A">>),
       Block("para", 0, <<"S","o","m","e"," ","b","o","d","y",".">>),
       Block("bullet", 0, <<"i","t","e","m"," ","o","n","e">>),
       Block("bullet", 0, <<"i","t","e","m"," ","t","w","o">>),
       Block("number", 0, <<"1","."," ","f","i","r","s","t">>) >>

\* C9 as stated: the body is, in line order, one block per structural line
\* and one paragraph per maximal run of plain lines (joined with single
\* spaces); a blank line closes the open paragraph and emits no block of its
\* own; the example text yields exactly its five listed blocks and a second
\* bullet, and no other body block.
C9_BlocksFollowLines ==
    Rendered =>
        /\ Body = BodyFrom(TrimmedLines, 1, FALSE)
        /\ (policy_content[1] = ExampleText) => Body = ExampleBlocks

\* C9 amended: the same, except that a blank line that closes an open
\* paragraph emits one empty paragraph block (a blank line with no paragraph
\* open emits nothing); the example text yields heading-1 "A", paragraph
\* "Some body.", an empty paragraph, bullets "item one" and "item two" and
\* numbered item "1. first".
C9_BlocksWithSpacers ==
    Rendered =>
        /\ Body = BodyFrom(TrimmedLines, 1, TRUE)
        /\ (policy_content[1] = ExampleText) =>
              Body = SubSeq(ExampleBlocks, 1, 2) \o <<Block("para", 0, <<>>)>>
                         \o SubSeq(ExampleBlocks, 3, Len(ExampleBlocks))

\* the example text has been rendered
C9_Witness ==
    /\ Rendered
    /\ policy_content[1] = ExampleText
    /\ Len(Body) = Len(ExampleBlocks) + 1

\* a label line in the words of the claim: it does not start with a heading
\* marker and ends with ':' or is upper-case throughout and longer than 10
LabelLine(line) ==
    /\ line # <<>>
    /\ line[1] # "#"
    /\ \/ line[Len(line)] = ":"
       \/ /\ Len(line) > 10
          /\ \E i \in 1..Len(line) : line[i] \in UpperSet
          /\ \A i \in 1..Len(line) : line[i] \notin LowerSet

\* t is line without its trailing colons
WithoutTrailingColons(line, t) ==
    /\ Len(t) <= Len(line)
    /\ t = SubSeq(line, 1, Len(t))
    /\ \A i \in (Len(t) + 1)..Len(line) : line[i] = ":"
    /\ t = <<>> \/ t[Len(t)] # ":"

\* C10: a line that does not start with a heading marker and ends with ':'
\* or is upper-case and longer than 10 characters becomes a level-2 heading
\* without its trailing colon, never a paragraph, also when it looks like a
\* bullet or a numbered item; it closes the open paragraph, so a plain line
\* after it starts a new paragraph block.
C10_LabelIsHeading ==
    (pc = "render_lines" /\ li > 1) =>
        LET line == Strip(lines[li - 1])
            last == doc[Len(doc)]
        IN  /\ LabelLine(line) =>
                  /\ last.kind = "heading"
                  /\ last.level = 2
                  /\ WithoutTrailingColons(line, last.text)
                  /\ current_paragraph = 0
            /\ (li > 2 /\ LabelLine(Strip(lines[li - 2])) /\ LineClass(line) = "plain") =>
                  /\ last = Block("para", 0, line)
                  /\ current_paragraph = Len(doc)
                  /\ doc[Len(doc) - 1].kind = "heading"

\* "TOTAL BUDGET"-like line after an open paragraph: the heading is out and
\* no paragraph is open
C10_Witness ==
    /\ pc = "render_lines"
    /\ li > 2
    /\ LineClass(Strip(lines[li - 2])) = "plain"
    /\ Strip(lines[li - 1]) = <<"T","O","T","A","L"," ","B","U","D","G","E","T">>
    /\ doc[Len(doc)] = Block("heading", 2, <<"T","O","T","A","L"," ","B","U","D","G","E","T">>)
    /\ current_paragraph = 0

\* ------------------------------------------------------------------------
\* The IT Glue integration (src/itglue_integration.py).  A configuration is
\* [name, type, notes] and an organization [id, name, organization_type,
\* status]: the attributes the code reads, as text.
\* ------------------------------------------------------------------------
\* _make_request: the dictionary a request yields.  outcome is what the
\* transport does: [kind |-> "json", body |-> the decoded body] or
\* [kind |-> "raise", error |-> the RequestException's text]
make_request(api_key, outcome) ==
    IF ~api_key THEN [success |-> FALSE, error |-> "IT Glue API key not configured"]
    ELSE IF outcome.kind = "raise" THEN [success |-> FALSE, error |-> outcome.error]
    ELSE outcome.body

\* 'data' in result
HasData(result) == "data" \in DOMAIN result

\* the filter of get_active_organizations on one organization
IsActive(org) == Contains(Lower(org.status), <<"a","c","t","i","v","e">>)

\* get_active_organizations, given the result of its request
active_organizations(result) ==
    IF ~HasData(result) THEN <<>>
    ELSE LET kept == SelectSeq(result.data, IsActive)
         IN  [i \in 1..Len(kept) |->
                 [id |-> kept[i].id, name |-> kept[i].name,
                  type |-> kept[i].organization_type, status |-> kept[i].status]]

\* the keys of tech_stack, in the order the dictionary holds them
bucket_names == <<"endpoints", "network", "security", "cloud", "other">>

\* the if/elif chain of _parse_configurations on one configuration
BucketOfLastMatch(config) ==
    LET config_type == Lower(config.type) \o <<>>
    IN  IF Contains(config_type, <<"c","l","o","u","d">>) \/ Contains(config_type, <<"s","a","a","s">>)
        THEN "cloud"
        ELSE IF Contains(config_type, <<"s","e","c","u","r","i","t","y">>) \/ Contains(config_type, <<"a","n","t","i","v","i","r","u","s">>)
        THEN "security"
        ELSE IF Contains(config_type, <<"f","i","r","e","w","a","l","l">>) \/ Contains(config_type, <<"s","w","i","t","c","h">>)
                \/ Contains(config_type, <<"r","o","u","t","e","r">>)
        THEN "network"
        ELSE IF Contains(config_type, <<"s","e","r","v","e","r">>) \/ Contains(config_type, <<"w","o","r","k","s","t","a","t","i","o","n">>)
                \/ Contains(config_type, <<"l","a","p","t","o","p">>)
        THEN "endpoints"
        ELSE "other"

BucketOf(config) ==
    LET config_type == Lower(config.type) \o <<>>
    IN  IF Contains(config_type, <<"s","e","r","v","e","r">>) \/ Contains(config_type, <<"w","o","r","k","s","t","a","t","i","o","n">>)
           \/ Contains(config_type, <<"l","a","p","t","o","p">>)
        THEN "endpoints"
        ELSE IF Contains(config_type, <<"f","i","r","e","w","a","l","l">>) \/ Contains(config_type, <<"s","w","i","t","c","h">>)
                \/ Contains(config_type, <<"r","o","u","t","e","r">>)
        THEN "network"
        ELSE IF Contains(config_type, <<"s","e","c","u","r","i","t","y">>) \/ Contains(config_type, <<"a","n","t","i","v","i","r","u","s">>)
        THEN "security"
        ELSE IF Contains(config_type, <<"c","l","o","u","d">>) \/ Contains(config_type, <<"s","a","a","s">>)
        THEN "cloud"
        ELSE "other"

\* config_item: what a bucket keeps of a configuration
ConfigItem(config) == [name |-> config.name, type |-> config.type]

parse_configurations(configurations) ==
    [b \in Range(bucket_names) |->
        LET mine == SelectSeq(configurations, LAMBDA c : BucketOf(c) = b)
        IN  [i \in 1..Len(mine) |-> ConfigItem(mine[i])]]

\* the frameworks one configuration adds to the set
FrameworksOf(config) ==
    LET combined_text == Lower(config.name) \o <<" ">> \o Lower(config.notes)
    IN  (IF Contains(combined_text, <<"h","i","p","a","a">>) THEN {"HIPAA"} ELSE {})
        \cup (IF Contains(combined_text, <<"p","c","i">>) THEN {"PCI-DSS"} ELSE {})
        \cup (IF Contains(combined_text, <<"n","i","s","t">>) THEN {"NIST"} ELSE {})
        \cup (IF Contains(combined_text, <<"s","o","c"," ","2">>) \/ Contains(combined_text, <<"s","o","c","2">>)
              THEN {"SOC 2"} ELSE {})
        \cup (IF Contains(combined_text, <<"i","s","o"," ","2","7","0","0","1">>) \/ Contains(combined_text, <<"i","s","o","2","7","0","0","1">>)
              THEN {"ISO 27001"} ELSE {})
        \cup (IF Contains(combined_text, <<"g","d","p","r">>) THEN {"GDPR"} ELSE {})
        \cup (IF Contains(combined_text, <<"c","m","m","c">>) THEN {"CMMC"} ELSE {})

\* the set _detect_compliance_frameworks has built when its loop ends
frameworks(configurations) ==
    UNION {FrameworksOf(configurations[i]) : i \in 1..Len(configurations)}

\* list(frameworks): a set of strings is listed in the order of its hash
\* table, which changes with the interpreter's hash seed and with the order
\* of insertion; every order is possible
ListingsOf(fs) ==
    {l \in [1..Cardinality(fs) -> fs] : Range(l) = fs}

\* the keys of compliance_mapping, with the form option of each
compliance_mapping ==
    [f \in {"NIST", "SOC 2", "ISO 27001", "HIPAA", "PCI-DSS", "PCI", "GDPR", "CMMC"} |->
        CASE f = "NIST" -> "NIST Cybersecurity Framework"
          [] f = "SOC 2" -> "SOC 2 Type II"
          [] f = "ISO 27001" -> "ISO 27001"
          [] f = "HIPAA" -> "HIPAA"
          [] f = "PCI-DSS" -> "PCI DSS"
          [] f = "PCI" -> "PCI DSS"
          [] f = "GDPR" -> "GDPR"
          [] f = "CMMC" -> "CMMC Level 2"]

\* _map_compliance: the option of the first listed framework that has one
map_compliance(framework_list) ==
    LET known == {i \in 1..Len(framework_list) : framework_list[i] \in DOMAIN compliance_mapping}
    IN  IF known = {} THEN ""
        ELSE compliance_mapping[framework_list[CHOOSE i \in known : \A j \in known : i <= j]]

\* industry_mapping, in the order the dictionary holds its keys
industry_mapping ==
    << <<<<"h","e","a","l","t","h","c","a","r","e">>, "Healthcare">>,
       <<<<"m","e","d","i","c","a","l">>, "Healthcare">>,
       <<<<"h","o","s","p","i","t","a","l">>, "Healthcare">>,
       <<<<"c","l","i","n","i","c">>, "Healthcare">>,
       <<<<"f","i","n","a","n","c","i","a","l">>, "Financial Services">>,
       <<<<"b","a","n","k">>, "Financial Services">>,
       <<<<"i","n","v","e","s","t","m","e","n","t">>, "Financial Services">>,
       <<<<"m","a","n","u","f","a","c","t","u","r","i","n","g">>, "Manufacturing">>,
       <<<<"f","a","c","t","o","r","y">>, "Manufacturing">>,
       <<<<"r","e","t","a","i","l">>, "Retail">>,
       <<<<"s","t","o","r","e">>, "Retail">>,
       <<<<"s","h","o","p">>, "Retail">>,
       <<<<"t","e","c","h","n","o","l","o","g","y">>, "Technology">>,
       <<<<"s","o","f","t","w","a","r","e">>, "Technology">>,
       <<<<"s","a","a","s">>, "Technology">>,
       <<<<"e","d","u","c","a","t","i","o","n">>, "Education">>,
       <<<<"s","c","h","o","o","l">>, "Education">>,
       <<<<"u","n","i","v","e","r","s","i","t","y">>, "Education">>,
       <<<<"l","e","g","a","l">>, "Legal">>,
       <<<<"l","a","w">>, "Legal">>,
       <<<<"a","t","t","o","r","n","e","y">>, "Legal">> >>

map_industry(org_type) ==
    LET org_type_lower == Lower(org_type)
        hits == {i \in 1..Len(industry_mapping) : Contains(org_type_lower, industry_mapping[i][1])}
    IN  IF hits = {} THEN "Other"
        ELSE industry_mapping[CHOOSE i \in hits : \A j \in hits : i <= j][2]

estimate_company_size(config_count) ==
    IF config_count < 20 THEN "Small (1-50 employees)"
    ELSE IF config_count < 75 THEN "Medium (51-250 employees)"
    ELSE IF config_count < 200 THEN "Large (251-1000 employees)"
    ELSE "Enterprise (1000+ employees)"

\* config_text of _map_technology_stack: the lowercased names of all buckets'
\* items, bucket after bucket, joined by one space
ConfigText(tech_stack) ==
    LET all_configs == tech_stack["endpoints"] \o tech_stack["network"] \o tech_stack["security"]
                           \o tech_stack["cloud"] \o tech_stack["other"]
    IN  Join([i \in 1..Len(all_configs) |-> Lower(all_configs[i].name)], <<" ">>)

\* The detections of _map_technology_stack, one per form field: <<>> when the
\* field is left out of the mapping, else <<its option>>
platform_choice(config_text) ==
    IF Contains(config_text, <<"m","i","c","r","o","s","o","f","t"," ","3","6","5">>) \/ Contains(config_text, <<"o","f","f","i","c","e"," ","3","6","5">>)
       \/ Contains(config_text, <<"a","z","u","r","e">>) \/ Contains(config_text, <<"o","3","6","5">>)
    THEN <<"Microsoft 365 / Azure">>
    ELSE IF Contains(config_text, <<"g","o","o","g","l","e"," ","w","o","r","k","s","p","a","c","e">>) \/ Contains(config_text, <<"g","m","a","i","l">>)
            \/ Contains(config_text, <<"g","s","u","i","t","e">>)
    THEN <<"Google Workspace">>
    ELSE <<"Microsoft 365 / Azure">>

mdr_solution_absent(config_text) ==
    IF Contains(config_text, <<"s","o","p","h","o","s">>) THEN <<"Sophos MDR">>
    ELSE IF Contains(config_text, <<"c","r","o","w","d","s","t","r","i","k","e">>) \/ Contains(config_text, <<"s","e","n","t","i","n","e","l">>)
    THEN <<"Other MDR">>
    ELSE IF Contains(config_text, <<"a","n","t","i","v","i","r","u","s">>) \/ Contains(config_text, <<"d","e","f","e","n","d","e","r">>)
    THEN <<"Traditional Antivirus Only">>
    ELSE <<>>

mdr_solution(config_text) ==
    IF Contains(config_text, <<"s","o","p","h","o","s">>) THEN <<"Sophos MDR">>
    ELSE IF Contains(config_text, <<"c","r","o","w","d","s","t","r","i","k","e">>) \/ Contains(config_text, <<"s","e","n","t","i","n","e","l">>)
    THEN <<"Other MDR">>
    ELSE IF Contains(config_text, <<"a","n","t","i","v","i","r","u","s">>) \/ Contains(config_text, <<"d","e","f","e","n","d","e","r">>)
    THEN <<"Traditional Antivirus Only">>
    ELSE <<"Sophos MDR">>

email_security(config_text) ==
    IF Contains(config_text, <<"a","v","a","n","a","n">>) THEN <<"Avanan Email Security">>
    ELSE IF Contains(config_text, <<"d","e","f","e","n","d","e","r">>) \/ Contains(config_text, <<"a","t","p">>)
    THEN <<"Microsoft Defender">>
    ELSE IF Contains(config_text, <<"p","r","o","o","f","p","o","i","n","t">>) \/ Contains(config_text, <<"m","i","m","e","c","a","s","t">>)
    THEN <<"Other Email Security">>
    ELSE <<>>

siem_solution(config_text) ==
    IF Contains(config_text, <<"s","i","e","m">>) \/ Contains(config_text, <<"s","p","l","u","n","k">>)
       \/ Contains(config_text, <<"s","e","n","t","i","n","e","l">>)
    THEN <<"SIEM with SOC monitoring">>
    ELSE IF Contains(config_text, <<"l","o","g">>) /\ Contains(config_text, <<"m","o","n","i","t","o","r">>)
    THEN <<"Basic log collection">>
    ELSE <<>>

pam_solution(config_text) ==
    IF Contains(config_text, <<"s","e","n","h","a","s","e","g","u","r","a">>) THEN <<"Senhasegura PAM">>
    ELSE IF Contains(config_text, <<"c","y","b","e","r","a","r","k">>) \/ Contains(config_text, <<"t","h","y","c","o","t","i","c">>)
            \/ Contains(config_text, <<"b","e","y","o","n","d","t","r","u","s","t">>)
    THEN <<"Other PAM">>
    ELSE <<>>

disk_encryption(config_text) ==
    IF Contains(config_text, <<"b","i","t","l","o","c","k","e","r">>)
    THEN IF Contains(config_text, <<"f","i","l","e","v","a","u","l","t">>)
         THEN <<"Both BitLocker and FileVault">>
         ELSE <<"BitLocker (Windows)">>
    ELSE IF Contains(config_text, <<"f","i","l","e","v","a","u","l","t">>) THEN <<"FileVault (macOS)">>
    ELSE <<>>

\* mdm_computers and mdm_mobile are set together, to the same option
mdm(config_text) ==
    IF Contains(config_text, <<"i","n","t","u","n","e">>) THEN <<"Microsoft Intune">>
    ELSE IF Contains(config_text, <<"j","a","m","f">>) \/ Contains(config_text, <<"a","i","r","w","a","t","c","h">>)
    THEN <<"Other MDM">>
    ELSE <<>>

security_training(config_text) ==
    IF Contains(config_text, <<"k","n","o","w","b","e","4">>)
    THEN IF Contains(config_text, <<"m","o","n","t","h","l","y">>)
         THEN <<"KnowBe4 Monthly Training">>
         ELSE <<"KnowBe4 Quarterly Training">>
    ELSE <<>>

phishing_tests(config_text) ==
    IF Contains(config_text, <<"k","n","o","w","b","e","4">>) \/ Contains(config_text, <<"p","h","i","s","h","i","n","g">>)
    THEN <<"Monthly Phishing Tests">>
    ELSE <<>>

vulnerability_scans(config_text) ==
    IF Contains(config_text, <<"v","u","l","n","e","r","a","b","i","l","i","t","y">>) \/ Contains(config_text, <<"n","e","s","s","u","s">>)
       \/ Contains(config_text, <<"q","u","a","l","y","s">>)
    THEN IF Contains(config_text, <<"m","o","n","t","h","l","y">>)
         THEN <<"Monthly Vulnerability Scans">>
         ELSE <<"Quarterly Vulnerability Scans">>
    ELSE <<>>

dark_web_monitoring(config_text) ==
    IF Contains(config_text, <<"d","a","r","k","w","e","b","i","d">>) \/ Contains(config_text, <<"d","a","r","k"," ","w","e","b">>)
    THEN <<"DarkWebID Monitoring">>
    ELSE IF Contains(config_text, <<"b","r","e","a","c","h">>) /\ Contains(config_text, <<"m","o","n","i","t","o","r">>)
    THEN <<"Other Dark Web Monitoring">>
    ELSE <<>>

mfa_solution(config_text) ==
    IF Contains(config_text, <<"m","i","c","r","o","s","o","f","t">>)
       /\ (Contains(config_text, <<"m","f","a">>) \/ Contains(config_text, <<"a","u","t","h","e","n","t","i","c","a","t","o","r">>))
    THEN <<"Microsoft MFA">>
    ELSE IF Contains(config_text, <<"d","u","o">>) THEN <<"Duo Security">>
    ELSE IF Contains(config_text, <<"m","f","a">>) \/ Contains(config_text, <<"t","w","o","-","f","a","c","t","o","r">>)
            \/ Contains(config_text, <<"2","f","a">>)
    THEN <<"Other MFA">>
    ELSE <<>>

password_manager(config_text) ==
    IF Contains(config_text, <<"l","a","s","t","p","a","s","s">>) THEN <<"LastPass Business">>
    ELSE IF Contains(config_text, <<"1","p","a","s","s","w","o","r","d">>) \/ Contains(config_text, <<"d","a","s","h","l","a","n","e">>)
            \/ Contains(config_text, <<"k","e","e","p","e","r">>)
    THEN <<"Other Password Manager">>
    ELSE <<>>

intrusion_detection(config_text) ==
    IF Contains(config_text, <<"i","d","s">>) \/ Contains(config_text, <<"i","p","s">>)
       \/ Contains(config_text, <<"i","n","t","r","u","s","i","o","n">>)
    THEN <<"Network Intrusion Detection System">>
    ELSE IF Contains(config_text, <<"f","i","r","e","w","a","l","l">>)
            /\ (Contains(config_text, <<"s","o","n","i","c","w","a","l","l">>) \/ Contains(config_text, <<"f","o","r","t","i","n","e","t">>)
                \/ Contains(config_text, <<"p","a","l","o"," ","a","l","t","o">>))
    THEN <<"Firewall with IDS/IPS">>
    ELSE IF Contains(config_text, <<"f","i","r","e","w","a","l","l">>) \/ Contains(config_text, <<"m","e","r","a","k","i">>)
    THEN <<"Basic Firewall">>
    ELSE <<>>

\* the form fields _map_technology_stack can set, in the order it sets them
stack_fields ==
    <<"platform_choice", "mdr_solution", "email_security", "siem_solution", "pam_solution",
      "disk_encryption", "mdm_computers", "mdm_mobile", "security_training", "phishing_tests",
      "vulnerability_scans", "dark_web_monitoring", "mfa_solution", "password_manager",
      "intrusion_detection">>

\* the detections on one text, field by field in the order of stack_fields
Detections(config_text) ==
    <<platform_choice(config_text), mdr_solution(config_text), email_security(config_text),
      siem_solution(config_text), pam_solution(config_text), disk_encryption(config_text),
      mdm(config_text), mdm(config_text), security_training(config_text),
      phishing_tests(config_text), vulnerability_scans(config_text),
      dark_web_monitoring(config_text), mfa_solution(config_text),
      password_manager(config_text), intrusion_detection(config_text)>>

\* the dictionary _map_technology_stack returns: the fields it has set
map_technology_stack(tech_stack) ==
    LET found == Detections(ConfigText(tech_stack))
        at == [f \in Range(stack_fields) |-> CHOOSE k \in 1..Len(stack_fields) : stack_fields[k] = f]
    IN  [f \in {f \in Range(stack_fields) : found[at[f]] # <<>>} |-> found[at[f]][1]]

\* the dictionary map_profile_to_form_data returns for the profile p (not
\* None): the four organization fields, updated with the technology mapping
map_profile_to_form_data(p) ==
    LET tech_mapping == map_technology_stack(p.technology_stack)
    IN  [f \in {"client_name", "industry", "company_size", "compliance_requirements"}
                \cup DOMAIN tech_mapping |->
            IF f \in DOMAIN tech_mapping THEN tech_mapping[f]
            ELSE CASE f = "client_name" -> p.organization.name
                   [] f = "industry" -> map_industry(p.organization.organization_type)
                   [] f = "company_size" -> estimate_company_size(p.total_configurations)
                   [] f = "compliance_requirements" -> map_compliance(p.compliance_frameworks)]

\* ------------------------------------------------------------------------
\* The integration at work: the organizations are listed, or one
\* organization is looked up (get_organization_profile) and its profile
\* mapped to form data (map_profile_to_form_data), call after call
\* ------------------------------------------------------------------------
MaxOrgs == 2

MaxConfigs == 2

\* the organizations of the account
OrgVocab ==
    { [id |-> "1", name |-> <<"A","c","m","e"," ","H","e","a","l","t","h">>, organization_type |-> <<"H","e","a","l","t","h","c","a","r","e"," ","C","l","i","n","i","c">>,
       status |-> <<"A","c","t","i","v","e">>],
      [id |-> "2", name |-> <<"B","e","t","a"," ","B","a","n","k">>, organization_type |-> <<"B","a","n","k">>,
       status |-> <<"I","n","a","c","t","i","v","e">>],
      [id |-> "3", name |-> <<"G","a","m","m","a">>, organization_type |-> <<"C","u","s","t","o","m","e","r">>,
       status |-> <<"A","C","T","I","V","E">>],
      [id |-> "4", name |-> <<"D","e","l","t","a"," ","L","a","w">>, organization_type |-> <<"V","e","n","d","o","r">>,
       status |-> <<"P","r","o","s","p","e","c","t">>] }

OrgLists == UNION { [1..k -> OrgVocab] : k \in 0..MaxOrgs }

\* the organization that is looked up
ProfiledOrgs == {o \in OrgVocab : o.id = "1"}

\* the configurations an organization can have
ConfigVocab ==
    { [name |-> <<"S","o","p","h","o","s"," ","E","n","d","p","o","i","n","t">>, type |-> <<"W","o","r","k","s","t","a","t","i","o","n">>, notes |-> <<>>],
      [name |-> <<"A","z","u","r","e"," ","A","D">>, type |-> <<"C","l","o","u","d"," ","S","e","r","v","i","c","e">>, notes |-> <<>>],
      [name |-> <<"B","i","t","L","o","c","k","e","r"," ","D","r","i","v","e"," ","E","n","c","r","y","p","t","i","o","n">>, type |-> <<"S","e","c","u","r","i","t","y"," ","S","o","f","t","w","a","r","e">>, notes |-> <<>>],
      [name |-> <<"S","o","n","i","c","W","a","l","l"," ","F","i","r","e","w","a","l","l">>, type |-> <<"S","e","c","u","r","i","t","y"," ","S","w","i","t","c","h">>, notes |-> <<>>],
      [name |-> <<"H","I","P","A","A"," ","F","i","l","e"," ","S","e","r","v","e","r">>, type |-> <<"C","l","o","u","d"," ","S","e","r","v","e","r">>, notes |-> <<>>],
      [name |-> <<"W","e","b"," ","L","o","g"," ","M","o","n","i","t","o","r">>, type |-> <<"P","r","i","n","t","e","r">>, notes |-> <<"N","I","S","T">>] }

\* the configurations of the example organization
ExampleConfigs ==
    << [name |-> <<"S","o","p","h","o","s"," ","E","n","d","p","o","i","n","t">>, type |-> <<"W","o","r","k","s","t","a","t","i","o","n">>, notes |-> <<>>],
       [name |-> <<"A","z","u","r","e"," ","A","D">>, type |-> <<"C","l","o","u","d"," ","S","e","r","v","i","c","e">>, notes |-> <<>>],
       [name |-> <<"B","i","t","L","o","c","k","e","r"," ","D","r","i","v","e"," ","E","n","c","r","y","p","t","i","o","n">>, type |-> <<"S","e","c","u","r","i","t","y"," ","S","o","f","t","w","a","r","e">>, notes |-> <<>>] >>

ConfigLists == UNION { [1..k -> ConfigVocab] : k \in 0..MaxConfigs } \cup {ExampleConfigs}

\* what the transport can do with a request whose answer would be data
Outcomes(datas) ==
    { [kind |-> "json", body |-> [data |-> d]] : d \in datas }
        \cup { [kind |-> "json", body |-> [errors |-> "Not Found"]],
               [kind |-> "raise", error |-> "ConnectionError"] }

\* everything but the integration's state
appVars ==
    <<reqVars, pc, entered, form_data, genVars, sanVars, policy_content, docVars, http,
      health_info, test_results>>

\* no call is in progress and the results of the last one are gone
Cleared ==
    /\ api_log = <<>>
    /\ organizations = <<>>
    /\ org_result = <<>>
    /\ config_result = <<>>
    /\ profile = <<>>
    /\ prefill = <<>>

InitItg ==
    /\ form = GoodForm
    /\ env = [api_key |-> FALSE, endpoint |-> FALSE]
    /\ pc = "idle"
    /\ Fresh
    /\ itg_key \in BOOLEAN
    /\ ipc = "idle"
    /\ Cleared
    /\ previous = <<>>

\* the endpoints _make_request has requested after one more call of it
Requested(endpoint) == IF itg_key THEN Append(api_log, endpoint) ELSE api_log

\* get_active_organizations
ListOrganizations ==
    /\ ipc = "idle"
    /\ \E o \in Outcomes(OrgLists) :
          /\ org_result' = <<make_request(itg_key, o)>>
          /\ organizations' = active_organizations(make_request(itg_key, o))
    /\ api_log' = Requested("/organizations")
    /\ ipc' = "listed"
    /\ UNCHANGED <<appVars, itg_key, config_result, profile, prefill, previous>>

\* get_organization_profile: the organization fetch and the test of its result
FetchOrganization ==
    /\ ipc = "idle"
    /\ \E o \in Outcomes(ProfiledOrgs) :
          /\ org_result' = <<make_request(itg_key, o)>>
          /\ ipc' = IF HasData(make_request(itg_key, o)) THEN "fetch_configs" ELSE "returned"
    /\ api_log' = Requested("/organizations/{org_id}")
    /\ UNCHANGED <<appVars, itg_key, organizations, config_result, profile, prefill, previous>>

\* get_organization_profile: the configurations fetch
FetchConfigurations ==
    /\ ipc = "fetch_configs"
    /\ \E o \in Outcomes(ConfigLists) : config_result' = <<make_request(itg_key, o)>>
    /\ api_log' = Requested("/configurations")
    /\ ipc' = "build"
    /\ UNCHANGED <<appVars, itg_key, organizations, org_result, profile, prefill, previous>>

\* configurations of get_organization_profile
Configurations(result) == IF HasData(result) THEN result.data ELSE <<>>

\* the profile dictionary of get_organization_profile
Profile(org_data, configurations, listed) ==
    [organization |-> [id |-> org_data.id, name |-> org_data.name,
                       organization_type |-> org_data.organization_type,
                       status |-> org_data.status],
     total_configurations |-> Len(configurations),
     technology_stack |-> parse_configurations(configurations),
     compliance_frameworks |-> listed]

BuildProfileOrAbort ==
    /\ ipc = "build"
    /\ IF HasData(config_result[1])
       THEN LET configurations == Configurations(config_result[1])
            IN  \E listed \in ListingsOf(frameworks(configurations)) :
                   profile' = <<Profile(org_result[1].data, configurations, listed)>>
       ELSE profile' = <<>>
    /\ ipc' = "returned"
    /\ UNCHANGED <<appVars, itg_key, api_log, organizations, org_result, config_result,
                   prefill, previous>>

\* get_organization_profile: the profile is built and returned
BuildProfile ==
    /\ ipc = "build"
    /\ LET configurations == Configurations(config_result[1])
       IN  \E listed \in ListingsOf(frameworks(configurations)) :
              profile' = <<Profile(org_result[1].data, configurations, listed)>>
    /\ ipc' = "returned"
    /\ UNCHANGED <<appVars, itg_key, api_log, organizations, org_result, config_result,
                   prefill, previous>>

\* map_profile_to_form_data on the profile that was returned
MapProfile ==
    /\ ipc = "returned"
    /\ profile # <<>>
    /\ prefill' = <<map_profile_to_form_data(profile[1])>>
    /\ ipc' = "mapped"
    /\ UNCHANGED <<appVars, itg_key, api_log, organizations, org_result, config_result,
                   profile, previous>>

\* the call is over; a lookup that mapped a profile is remembered
NextCall ==
    /\ \/ ipc \in {"listed", "mapped"}
       \/ ipc = "returned" /\ profile = <<>>
    /\ previous' = IF ipc = "mapped"
                   THEN <<[frameworks |-> Range(profile[1].compliance_frameworks),
                           compliance_requirements |-> prefill[1]["compliance_requirements"]]>>
                   ELSE previous
    /\ ipc' = "idle"
    /\ api_log' = <<>>
    /\ organizations' = <<>>
    /\ org_result' = <<>>
    /\ config_result' = <<>>
    /\ profile' = <<>>
    /\ prefill' = <<>>
    /\ UNCHANGED <<appVars, itg_key>>

NextItg ==
    \/ ListOrganizations
    \/ FetchOrganization
    \/ FetchConfigurations
    \/ BuildProfile
    \/ MapProfile
    \/ NextCall

SpecItg == InitItg /\ [][NextItg]_vars

\* ------------------------------------------------------------------------
\* Claims about the integration (checked under SpecItg)
\* ------------------------------------------------------------------------
\* The substring rules of the form fields, in their fixed order:
\* <<field, condition, option>>.  A condition is a list of keyword sets and
\* is met by a text that contains a keyword of every set.
stack_rules ==
    << <<"platform_choice", << {<<"m","i","c","r","o","s","o","f","t"," ","3","6","5">>, <<"o","f","f","i","c","e"," ","3","6","5">>, <<"a","z","u","r","e">>, <<"o","3","6","5">>} >>,
         "Microsoft 365 / Azure">>,
       <<"platform_choice", << {<<"g","o","o","g","l","e"," ","w","o","r","k","s","p","a","c","e">>, <<"g","m","a","i","l">>, <<"g","s","u","i","t","e">>} >>,
         "Google Workspace">>,
       <<"mdr_solution", << {<<"s","o","p","h","o","s">>} >>, "Sophos MDR">>,
       <<"mdr_solution", << {<<"c","r","o","w","d","s","t","r","i","k","e">>, <<"s","e","n","t","i","n","e","l">>} >>, "Other MDR">>,
       <<"mdr_solution", << {<<"a","n","t","i","v","i","r","u","s">>, <<"d","e","f","e","n","d","e","r">>} >>, "Traditional Antivirus Only">>,
       <<"email_security", << {<<"a","v","a","n","a","n">>} >>, "Avanan Email Security">>,
       <<"email_security", << {<<"d","e","f","e","n","d","e","r">>, <<"a","t","p">>} >>, "Microsoft Defender">>,
       <<"email_security", << {<<"p","r","o","o","f","p","o","i","n","t">>, <<"m","i","m","e","c","a","s","t">>} >>, "Other Email Security">>,
       <<"siem_solution", << {<<"s","i","e","m">>, <<"s","p","l","u","n","k">>, <<"s","e","n","t","i","n","e","l">>} >>, "SIEM with SOC monitoring">>,
       <<"siem_solution", << {<<"l","o","g">>}, {<<"m","o","n","i","t","o","r">>} >>, "Basic log collection">>,
       <<"pam_solution", << {<<"s","e","n","h","a","s","e","g","u","r","a">>} >>, "Senhasegura PAM">>,
       <<"pam_solution", << {<<"c","y","b","e","r","a","r","k">>, <<"t","h","y","c","o","t","i","c">>, <<"b","e","y","o","n","d","t","r","u","s","t">>} >>, "Other PAM">>,
       <<"disk_encryption", << {<<"b","i","t","l","o","c","k","e","r">>}, {<<"f","i","l","e","v","a","u","l","t">>} >>, "Both BitLocker and FileVault">>,
       <<"disk_encryption", << {<<"b","i","t","l","o","c","k","e","r">>} >>, "BitLocker (Windows)">>,
       <<"disk_encryption", << {<<"f","i","l","e","v","a","u","l","t">>} >>, "FileVault (macOS)">>,
       <<"mdm_computers", << {<<"i","n","t","u","n","e">>} >>, "Microsoft Intune">>,
       <<"mdm_computers", << {<<"j","a","m","f">>, <<"a","i","r","w","a","t","c","h">>} >>, "Other MDM">>,
       <<"mdm_mobile", << {<<"i","n","t","u","n","e">>} >>, "Microsoft Intune">>,
       <<"mdm_mobile", << {<<"j","a","m","f">>, <<"a","i","r","w","a","t","c","h">>} >>, "Other MDM">>,
       <<"security_training", << {<<"k","n","o","w","b","e","4">>}, {<<"m","o","n","t","h","l","y">>} >>, "KnowBe4 Monthly Training">>,
       <<"security_training", << {<<"k","n","o","w","b","e","4">>} >>, "KnowBe4 Quarterly Training">>,
       <<"phishing_tests", << {<<"k","n","o","w","b","e","4">>, <<"p","h","i","s","h","i","n","g">>} >>, "Monthly Phishing Tests">>,
       <<"vulnerability_scans", << {<<"v","u","l","n","e","r","a","b","i","l","i","t","y">>, <<"n","e","s","s","u","s">>, <<"q","u","a","l","y","s">>}, {<<"m","o","n","t","h","l","y">>} >>,
         "Monthly Vulnerability Scans">>,
       <<"vulnerability_scans", << {<<"v","u","l","n","e","r","a","b","i","l","i","t","y">>, <<"n","e","s","s","u","s">>, <<"q","u","a","l","y","s">>} >>,
         "Quarterly Vulnerability Scans">>,
       <<"dark_web_monitoring", << {<<"d","a","r","k","w","e","b","i","d">>, <<"d","a","r","k"," ","w","e","b">>} >>, "DarkWebID Monitoring">>,
       <<"dark_web_monitoring", << {<<"b","r","e","a","c","h">>}, {<<"m","o","n","i","t","o","r">>} >>, "Other Dark Web Monitoring">>,
       <<"mfa_solution", << {<<"m","i","c","r","o","s","o","f","t">>}, {<<"m","f","a">>, <<"a","u","t","h","e","n","t","i","c","a","t","o","r">>} >>, "Microsoft MFA">>,
       <<"mfa_solution", << {<<"d","u","o">>} >>, "Duo Security">>,
       <<"mfa_solution", << {<<"m","f","a">>, <<"t","w","o","-","f","a","c","t","o","r">>, <<"2","f","a">>} >>, "Other MFA">>,
       <<"password_manager", << {<<"l","a","s","t","p","a","s","s">>} >>, "LastPass Business">>,
       <<"password_manager", << {<<"1","p","a","s","s","w","o","r","d">>, <<"d","a","s","h","l","a","n","e">>, <<"k","e","e","p","e","r">>} >>,
         "Other Password Manager">>,
       <<"intrusion_detection", << {<<"i","d","s">>, <<"i","p","s">>, <<"i","n","t","r","u","s","i","o","n">>} >>,
         "Network Intrusion Detection System">>,
       <<"intrusion_detection", << {<<"f","i","r","e","w","a","l","l">>}, {<<"s","o","n","i","c","w","a","l","l">>, <<"f","o","r","t","i","n","e","t">>, <<"p","a","l","o"," ","a","l","t","o">>} >>,
         "Firewall with IDS/IPS">>,
       <<"intrusion_detection", << {<<"f","i","r","e","w","a","l","l">>, <<"m","e","r","a","k","i">>} >>, "Basic Firewall">> >>

\* the two fields with a fallback
stack_defaults ==
    [f \in {"platform_choice", "mdr_solution"} |->
        IF f = "platform_choice" THEN "Microsoft 365 / Azure" ELSE "Sophos MDR"]

RuleMet(condition, text) ==
    \A k \in 1..Len(condition) : \E kw \in condition[k] : Contains(text, kw)

\* the first rule of the field that the text meets, 0 when it meets none
FirstRule(field, text) ==
    LET met == {i \in 1..Len(stack_rules) :
                    stack_rules[i][1] = field /\ RuleMet(stack_rules[i][2], text)}
    IN  IF met = {} THEN 0 ELSE CHOOSE i \in met : \A j \in met : i <= j

\* a lookup has mapped the profile of an organization
Mapped == ipc = "mapped" /\ profile # <<>> /\ prefill # <<>>

\* the lowercased names of the profile's configurations, joined by spaces
JoinedNames == ConfigText(profile[1].technology_stack)

ExampleStack == parse_configurations(ExampleConfigs)

\* C11: the technology mapping always holds platform_choice and mdr_solution
\* (their fallbacks when no rule matches) and holds any other field only
\* when one of the field's substring rules matches the space-joined
\* lowercase configuration names, with the option of the first matching
\* rule; the names Sophos Endpoint, Azure AD, BitLocker Drive Encryption give
\* exactly platform_choice = Microsoft 365 / Azure, mdr_solution = Sophos MDR
\* and disk_encryption = BitLocker (Windows).
C11_FirstRuleWins ==
    Mapped =>
        LET m == prefill[1]
        IN  /\ \A f \in Range(stack_fields) :
                  LET r == FirstRule(f, JoinedNames)
                  IN  IF r # 0 THEN f \in DOMAIN m /\ m[f] = stack_rules[r][3]
                      ELSE IF f \in DOMAIN stack_defaults
                           THEN f \in DOMAIN m /\ m[f] = stack_defaults[f]
                           ELSE f \notin DOMAIN m
            /\ profile[1].technology_stack = ExampleStack =>
                  /\ DOMAIN m \cap Range(stack_fields)
                        = {"platform_choice", "mdr_solution", "disk_encryption"}
                  /\ m["platform_choice"] = "Microsoft 365 / Azure"
                  /\ m["mdr_solution"] = "Sophos MDR"
                  /\ m["disk_encryption"] = "BitLocker (Windows)"

\* the example organization has been mapped: three fields are set, and a
\* field none of whose rules is met (email_security) is left out
C11_Witness ==
    /\ Mapped
    /\ profile[1].technology_stack = ExampleStack
    /\ prefill[1]["disk_encryption"] = "BitLocker (Windows)"
    /\ "email_security" \notin DOMAIN prefill[1]

\* the request of this step, once made, failed in the transport
TransportFailed(result) ==
    /\ result # <<>>
    /\ "success" \in DOMAIN result[1]
    /\ result[1].error = "ConnectionError"

\* get_organization_profile has returned
ProfileReturned == ipc = "returned"

EmptyStack == [b \in Range(bucket_names) |-> <<>>]

\* C12 as stated: a transport failure at either fetch step never aborts the
\* profile; whichever step failed, a profile is returned.
C12_ProfileDespiteFailure ==
    (ProfileReturned /\ (TransportFailed(org_result) \/ TransportFailed(config_result)))
        => profile # <<>>

\* C12, amended: no failure leaves the call without a return value, but only
\* a failure of the configurations fetch is absorbed: the profile is built
\* with no configurations (total 0, empty buckets, no frameworks) and the
\* organization's own fields.  A failure of the organization fetch ends the
\* call with None: no profile, and the configurations are not requested.
C12_OnlyConfigFailureAbsorbed ==
    ProfileReturned =>
        /\ TransportFailed(config_result) =>
              /\ profile # <<>>
              /\ profile[1] = Profile(org_result[1].data, <<>>, <<>>)
              /\ profile[1].total_configurations = 0
              /\ profile[1].technology_stack = EmptyStack
              /\ api_log = <<"/organizations/{org_id}", "/configurations">>
        /\ TransportFailed(org_result) =>
              /\ profile = <<>>
              /\ config_result = <<>>
              /\ api_log = <<"/organizations/{org_id}">>

\* the organization was fetched, the configurations fetch failed, and the
\* profile returned has no configurations
C12_Witness ==
    /\ ProfileReturned
    /\ HasData(org_result[1])
    /\ TransportFailed(config_result)
    /\ profile # <<>>
    /\ profile[1].total_configurations = 0

\* ------------------------------------------------------------------------
\* The health endpoint (health, src/app.py) beside generate_policy
\* ------------------------------------------------------------------------
\* model_names of health: the deployments it probes
test_model_names == << <<"gpt-5-chat">>, <<"gpt-4o">> >>

\* a GET request carries no form
NoForm == [n \in DOMAIN GoodForm |-> <<>>]

\* test_results[model] = value: the value of an existing key is replaced, a
\* new key goes last
SetResult(results, model, value) ==
    IF \E i \in 1..Len(results) : results[i].model = model
    THEN [i \in 1..Len(results) |->
             IF results[i].model = model THEN [model |-> model, availability |-> value]
             ELSE results[i]]
    ELSE Append(results, [model |-> model, availability |-> value])

\* where the loop over the models goes after a probe
AfterProbeStopping(i, ok) == IF ok THEN i + 1 ELSE Len(test_model_names) + 1

AfterProbe(i, ok) == i + 1

\* health_info is built; with both credentials configure_openai is called
HealthStart ==
    /\ pc = "health"
    /\ health_info' = <<[status |-> "healthy",
                         version |-> "2.0.2",
                         openai_configured |-> env.api_key /\ env.endpoint,
                         env_check |-> [api_key_present |-> env.api_key,
                                        endpoint_present |-> env.endpoint],
                         model_availability |-> <<>>]>>
    /\ IF env.api_key /\ env.endpoint
       THEN /\ openai_set' = TRUE
            /\ pc' = "health_probe"
       ELSE /\ pc' = "health_return"
            /\ UNCHANGED openai_set
    /\ idx' = 1
    /\ test_results' = <<>>
    /\ UNCHANGED <<reqVars, itgVars, entered, form_data, calls, response, last_error,
                   sanVars, policy_content, docVars, http>>

\* one model is sent the test message; the answer is "available", an
\* exception its text
HealthProbe ==
    /\ pc = "health_probe"
    /\ idx <= Len(test_model_names)
    /\ \/ /\ calls' = Append(calls, [engine |-> test_model_names[idx], prompt |-> <<"Hello">>,
                                     ok |-> TRUE, result |-> <<"Hi">>])
          /\ test_results' = SetResult(test_results, test_model_names[idx], <<"available">>)
          /\ idx' = AfterProbe(idx, TRUE)
       \/ \E e \in Errors :
            /\ calls' = Append(calls, [engine |-> test_model_names[idx], prompt |-> <<"Hello">>,
                                       ok |-> FALSE, result |-> e])
            /\ test_results' = SetResult(test_results, test_model_names[idx], <<"error: ">> \o e)
            /\ idx' = AfterProbe(idx, FALSE)
    /\ UNCHANGED <<reqVars, itgVars, pc, entered, form_data, openai_set, response, last_error,
                   sanVars, policy_content, docVars, http, health_info>>

\* the loop is over: health_info["model_availability"] = test_results
HealthReport ==
    /\ pc = "health_probe"
    /\ idx > Len(test_model_names)
    /\ health_info' = <<[health_info[1] EXCEPT !.model_availability = <<test_results>>]>>
    /\ pc' = "health_return"
    /\ UNCHANGED <<reqVars, itgVars, entered, form_data, genVars, sanVars, policy_content,
                   docVars, http, test_results>>

\* return health_info
HealthReturn ==
    /\ pc = "health_return"
    /\ http' = <<[status |-> 200, kind |-> "json", body |-> health_info[1]]>>
    /\ pc' = "done"
    /\ UNCHANGED <<reqVars, itgVars, entered, form_data, genVars, sanVars, policy_content,
                   docVars, health_info, test_results>>

\* a request arrives at /generate_policy or at /health
InitApp ==
    \/ Init
    \/ /\ form = NoForm
       /\ env \in [api_key : BOOLEAN, endpoint : BOOLEAN]
       /\ pc = "health"
       /\ Fresh
       /\ ItgUnused

NextApp ==
    \/ Next
    \/ HealthStart
    \/ HealthProbe
    \/ HealthReport
    \/ HealthReturn

SpecApp == InitApp /\ [][NextApp]_vars

\* ------------------------------------------------------------------------
\* Claims about the health endpoint (checked under SpecApp)
\* ------------------------------------------------------------------------
Configured == env.api_key /\ env.endpoint

\* health() has returned
HealthDone == pc = "done" /\ health_info # <<>>

\* the entry test_results holds for a probe
Availability(call) ==
    [model |-> call.engine,
     availability |-> IF call.ok THEN <<"available">> ELSE <<"error: ">> \o call.result]

\* C13: with both credentials the health endpoint probes every candidate
\* model exactly once, in list order, whether or not earlier probes failed,
\* and reports one availability entry per candidate ("available" or the
\* error); with a credential missing it makes no probe and reports
\* openai_configured false; either way the response has status 200 and says
\* "healthy", never "error".
C13_ProbesEveryModel ==
    /\ health_info # <<>> =>
          /\ Len(calls) <= Len(test_model_names)
          /\ \A i \in 1..Len(calls) : calls[i].engine = test_model_names[i]
          /\ ~Configured => calls = <<>>
    /\ HealthDone =>
          /\ http = <<[status |-> 200, kind |-> "json", body |-> health_info[1]]>>
          /\ health_info[1].status = "healthy"
          /\ health_info[1].openai_configured = Configured
          /\ IF Configured
             THEN /\ Len(calls) = Len(test_model_names)
                  /\ health_info[1].model_availability
                        = <<[i \in 1..Len(calls) |-> Availability(calls[i])]>>
             ELSE health_info[1].model_availability = <<>>

\* the first probe failed, the second was still made and succeeded, and the
\* report is returned with status 200
C13_Witness ==
    /\ HealthDone
    /\ Configured
    /\ Len(calls) = 2
    /\ ~calls[1].ok
    /\ calls[2].ok
    /\ http[1].status = 200
    /\ health_info[1].model_availability[1][2].availability = <<"available">>

\* ------------------------------------------------------------------------
\* Further claims about the renderer (checked under SpecRender)
\* ------------------------------------------------------------------------
\* C14: a line starting with one heading marker becomes a level-1 heading and
\* a line starting with two a level-2 heading, whose text is the line with
\* only the leading marker removed, trimmed; every other character of the
\* line, a later '#' included, is kept.
C14_OnlyLeadingMarkerRemoved ==
    (pc = "render_lines" /\ li > 1) =>
        LET line == Strip(lines[li - 1])
            last == doc[Len(doc)]
        IN  /\ StartsWith(line, <<"#", "#">>) =>
                  last = Block("heading", 2, Strip(From(line, 2)))
            /\ (StartsWith(line, <<"#">>) /\ ~StartsWith(line, <<"#", "#">>)) =>
                  last = Block("heading", 1, Strip(From(line, 1)))

\* ------------------------------------------------------------------------
\* Further claims about the integration (checked under SpecItg)
\* ------------------------------------------------------------------------
\* the status name marks the organization active, in any letter case
MarksActive(org) == Lower(org.status) = <<"a","c","t","i","v","e">>

\* an organization as get_active_organizations lists it
Listed(org) ==
    [id |-> org.id, name |-> org.name, type |-> org.organization_type, status |-> org.status]

\* C15: get_active_organizations returns, in the order of the API, exactly
\* the organizations whose status name marks them active (in any letter
\* case), none whose status name marks another state such as "Inactive";
\* after a failed or unconfigured request it returns the empty list.
C15_ExactlyTheActive ==
    ipc = "listed" =>
        IF HasData(org_result[1])
        THEN LET active == SelectSeq(org_result[1].data, MarksActive)
             IN  organizations = [i \in 1..Len(active) |-> Listed(active[i])]
        ELSE organizations = <<>>

\* the buckets with terms, in priority order, and the terms of each
bucket_terms ==
    << <<"endpoints", {<<"s","e","r","v","e","r">>, <<"w","o","r","k","s","t","a","t","i","o","n">>, <<"l","a","p","t","o","p">>}>>,
       <<"network", {<<"f","i","r","e","w","a","l","l">>, <<"s","w","i","t","c","h">>, <<"r","o","u","t","e","r">>}>>,
       <<"security", {<<"s","e","c","u","r","i","t","y">>, <<"a","n","t","i","v","i","r","u","s">>}>>,
       <<"cloud", {<<"c","l","o","u","d">>, <<"s","a","a","s">>}>> >>

\* the first bucket one of whose terms occurs in the lowercased type name
FirstBucket(config) ==
    LET type_name == Lower(config.type) \o <<>>
        hit == {i \in 1..Len(bucket_terms) :
                   \E term \in bucket_terms[i][2] : Contains(type_name, term)}
    IN  IF hit = {} THEN "other"
        ELSE bucket_terms[CHOOSE i \in hit : \A j \in hit : i <= j][1]

\* the configurations the profile was built from
Fetched == Configurations(config_result[1])

RECURSIVE SumLen(_, _)
SumLen(stack, names) ==
    IF names = <<>> THEN 0 ELSE Len(stack[Head(names)]) + SumLen(stack, Tail(names))

\* C16: _parse_configurations puts every configuration in exactly one of the
\* five buckets, the first in the order endpoints, network, security, cloud
\* with a term in the item's lowercased type name, else "other"; a bucket
\* holds its items in input order, and the bucket sizes sum to the number of
\* configurations, the profile's total_configurations.
C16_OneBucketEach ==
    (profile # <<>> /\ config_result # <<>>) =>
        LET stack == profile[1].technology_stack
        IN  /\ DOMAIN stack = {"endpoints", "network", "security", "cloud", "other"}
            /\ \A b \in DOMAIN stack :
                  LET mine == SelectSeq(Fetched, LAMBDA c : FirstBucket(c) = b)
                  IN  stack[b] = [i \in 1..Len(mine) |-> [name |-> mine[i].name, type |-> mine[i].type]]
            /\ SumLen(stack, bucket_names) = Len(Fetched)
            /\ profile[1].total_configurations = Len(Fetched)

\* two configurations whose type names hold terms of two buckets each: the
\* "Cloud Server" is an endpoint, the "Security Switch" network equipment
C16_Witness ==
    /\ profile # <<>>
    /\ profile[1].total_configurations = 2
    /\ Len(profile[1].technology_stack["endpoints"]) = 1
    /\ profile[1].technology_stack["endpoints"][1].type = <<"C","l","o","u","d"," ","S","e","r","v","e","r">>
    /\ Len(profile[1].technology_stack["network"]) = 1
    /\ profile[1].technology_stack["network"][1].type = <<"S","e","c","u","r","i","t","y"," ","S","w","i","t","c","h">>

\* C17: the compliance_requirements of map_profile_to_form_data is decided
\* by the set of detected frameworks alone: a lookup that detects the same
\* set as the lookup before it (in any order of the configurations or of the
\* listing) yields the same option, also for more than one framework.
C17_SetDecides ==
    (Mapped /\ previous # <<>>
        /\ previous[1].frameworks = Range(profile[1].compliance_frameworks))
    => prefill[1]["compliance_requirements"] = previous[1].compliance_requirements

\* ------------------------------------------------------------------------
\* A claim about sanitizer and renderer together (checked under Spec)
\* ------------------------------------------------------------------------
\* no blank line stands between two non-blank lines
NoInnerBlank(tl) ==
    \A j \in 1..Len(tl) :
        tl[j] = <<>> =>
            ~(/\ \E i \in 1..(j - 1) : tl[i] # <<>>
              /\ \E k \in (j + 1)..Len(tl) : tl[k] # <<>>)

\* a response whose last two paragraphs are plain text with one blank line
\* between them
TwoParagraphs ==
    <<"C","e","r","t","a","i","n","l","y","!"," ","H","e","r","e"," ","i","s"," ","t","e","x","t",EmDash,"o","k",NL,"*","*","S","c","o","p","e",":","*","*",NL,"l","e","t"," ","m","e"," ","k","n","o","w"," ","i","f",NL,"m","o","r","e",NL,NL,"l","a","s","t">>

\* C18: in generate_policy the text given to create_word_document has no
\* blank line between two non-blank lines (the sanitizer drops blank
\* lines), so the blank-line step of the renderer never finds a paragraph
\* open and no empty paragraph is emitted; the body is one block per
\* structural line and one paragraph per maximal run of plain lines, so a
\* paragraph ends only at a structural line or at the end of the text, and
\* two plain paragraphs the model separated by a blank line come out as one.
C18_BlankLinesNeverRendered ==
    /\ (pc \in {"render_cover", "render_lines", "save"}) =>
          NoInnerBlank(StrippedLines(policy_content[1]))
    /\ (pc = "render_lines" /\ li <= Len(lines) /\ Strip(lines[li]) = <<>>) =>
          current_paragraph = 0
    /\ Rendered =>
          /\ \A k \in 1..Len(Body) : Body[k] # Block("para", 0, <<>>)
          /\ Body = BodyFrom(TrimmedLines, 1, FALSE)
          /\ response = <<TwoParagraphs>> =>
                Body[Len(Body)] = Block("para", 0, <<"m","o","r","e"," ","l","a","s","t">>)

\* the response with the blank line between "more" and "last" has been
\* rendered: its last body block is the paragraph "more last"
C18_Witness ==
    /\ Rendered
    /\ response = <<TwoParagraphs>>
    /\ Contains(raw, <<"e", NL, NL, "l">>)
    /\ Body[Len(Body)] = Block("para", 0, <<"m","o","r","e"," ","l","a","s","t">>)

====
